---- MODULE Spec2Model ----
(***************************************************************************)
(* Fund return calculation system (calculation_of_fund_returns).           *)
(*                                                                         *)
(* The parts of the system are modelled, each with its own                 *)
(* specification over a shared set of variables:                           *)
(*   SpecEngine / SpecRuns : the distribution waterfall engine and the     *)
(*                remaining-principal / payback analysis (backend),        *)
(*   SpecIRR   : FinanceUtils.calculateIRR and friends (static/utils.js),  *)
(*   SpecMetrics : one call of a guarded arithmetic helper (calculateDPI,  *)
(*                safeCalculatePercentage),                                *)
(*   SpecUI    : the stateless wizard front end (static/app.js),           *)
(*   SpecCharts : the Chart instances kept by the charts module,           *)
(*   SpecClipboard : one run of the clipboard test page,                   *)
(*   SpecTimers : Utils.debounce and Utils.throttle,                       *)
(*   SpecQuick : applyQuickAdjustment against the documented series.       *)
(* Money amounts are integers; a percentage p of x is (x * p) \div 100.    *)
(***************************************************************************)
EXTENDS Integers, Sequences, FiniteSets, TLC

VARIABLES runs,                                  \* waterfall engine runs
          irr,                                   \* one calculateIRR call
          ui,                                    \* browser state of app.js
          call,                                  \* one call of a helper
          charts,                                \* Chart instances of the page
          clip,                                  \* one testOptimizedClipboard run
          timer,                                 \* a debounced / throttled function
          quick                                  \* one applyQuickAdjustment call

\* the variables of the page helpers
page == <<charts, clip, timer, quick>>

vars == <<runs, irr, ui, call, page>>

(***************************************************************************)
(* Generic helpers                                                         *)
(***************************************************************************)
Min(a, b) == IF a <= b THEN a ELSE b

Max(a, b) == IF a >= b THEN a ELSE b

Abs(a) == IF a < 0 THEN -a ELSE a

RECURSIVE SeqSum(_, _)
\* sum of the first n entries of the sequence s
SeqSum(s, n) == IF n = 0 THEN 0 ELSE SeqSum(s, n - 1) + s[n]

\* all sequences over S of length exactly n
SeqsOfLen(S, n) == [1..n -> S]

(***************************************************************************)
(* PART 1 - Distribution waterfall engine                                  *)
(***************************************************************************)

\* ---- bounds of the engine model ----
MaxPeriod == 2

\* ---- data model ----
Modes == {"flat_priority_repayment", "flat_periodic_distribution",
          "structured_senior_subordinate", "structured_mezzanine",
          "structured_interest_principal"}

Tranches == {"flat", "senior", "mezzanine", "subordinate"}

\* an absent mode parameter (rates and ratios are never negative)
Missing == -1

ZeroT == [x \in Tranches |-> 0]

\* the tranches a mode works with
ModeTranches(mode) ==
    CASE mode = "flat_priority_repayment" -> {"flat"}
      [] mode = "flat_periodic_distribution" -> {"flat"}
      [] mode = "structured_senior_subordinate" -> {"senior", "subordinate"}
      [] mode = "structured_mezzanine" -> {"senior", "mezzanine", "subordinate"}
      [] mode = "structured_interest_principal" -> {"senior", "subordinate"}
      [] OTHER -> {}

\* the mode parameters a mode needs
RequiredParams(mode) ==
    CASE mode = "flat_priority_repayment" -> {}
      [] mode = "flat_periodic_distribution" -> {"periodic_rate"}
      [] mode = "structured_senior_subordinate" -> {"senior_ratio"}
      [] mode = "structured_mezzanine" ->
             {"senior_ratio", "mezzanine_ratio", "mezzanine_rate"}
      [] mode = "structured_interest_principal" ->
             {"senior_ratio", "subordinate_rate"}
      [] OTHER -> {}

ParamNames == {"periodic_rate", "senior_ratio", "mezzanine_ratio",
               "mezzanine_rate", "subordinate_rate"}

\* configuration check made once, before the first period
ConfigValid(inp) ==
    /\ inp.mode \in Modes
    /\ \A p \in RequiredParams(inp.mode) : inp.modeParams[p] # Missing

Pct(x, p) == (x * p) \div 100

\* ---- tier primitives ----
ReturnOfPrincipalNoDeduct(cash, balance) ==
    LET amt == Min(cash, balance)
    IN  [allocated |-> amt, balance |-> balance - amt, remaining |-> cash]

\* ReturnOfPrincipal: allocate min(cash, balance) and reduce the balance by it

ReturnOfPrincipal(cash, balance) ==
    LET amt == Min(cash, balance)
    IN  [allocated |-> amt, balance |-> balance - amt, remaining |-> cash - amt]

HurdleAccrual(balance, accrued, rate) == accrued + Pct(balance, rate)

HurdleDistributionUncapped(cash, accrued) ==
    [allocated |-> cash, balance |-> accrued - cash, remaining |-> 0]

\* HurdleDistribution: allocate min(cash, accrued hurdle)
HurdleDistribution(cash, accrued) ==
    LET amt == Min(cash, accrued)
    IN  [allocated |-> amt, balance |-> accrued - amt, remaining |-> cash - amt]

CarrySplitGross(cash, carry) ==
    LET gp == Pct(cash, carry)
    IN  [gp |-> gp, lp |-> cash]

\* CarrySplit: GP share = cash x management_carry%, LP share = remainder
CarrySplit(cash, carry) ==
    LET gp == Pct(cash, carry)
    IN  [gp |-> gp, lp |-> cash - gp]

\* cash that enters the tier pipeline: a net outflow allocates nothing
CashForAllocationNetted(ncf) == ncf

CashForAllocation(ncf) == IF ncf < 0 THEN 0 ELSE ncf

HurdleBeforePrincipal(cash, p, a) ==
    LET hd == HurdleDistribution(cash, a)
        rp == ReturnOfPrincipal(hd.remaining, p)
    IN  [pr |-> rp.allocated, hd |-> hd.allocated,
         p |-> rp.balance, a |-> hd.balance, remaining |-> rp.remaining]

\* one tranche, principal before hurdle
PrincipalThenHurdle(cash, p, a) ==
    LET rp == ReturnOfPrincipal(cash, p)
        hd == HurdleDistribution(rp.remaining, a)
    IN  [pr |-> rp.allocated, hd |-> hd.allocated,
         p |-> rp.balance, a |-> hd.balance, remaining |-> hd.remaining]

\* one tranche, hurdle (interest) before principal
HurdleThenPrincipal(cash, p, a) ==
    LET hd == HurdleDistribution(cash, a)
        rp == ReturnOfPrincipal(hd.remaining, p)
    IN  [pr |-> rp.allocated, hd |-> hd.allocated,
         p |-> rp.balance, a |-> hd.balance, remaining |-> rp.remaining]

\* initial principal of each tranche: the mode-derived share of the investment
InitialPrincipal(inp) ==
    LET amt == inp.investment_amount
        mp == inp.modeParams
        m == inp.mode
    IN  CASE m \in {"flat_priority_repayment", "flat_periodic_distribution"} ->
               [ZeroT EXCEPT !["flat"] = amt]
          [] m \in {"structured_senior_subordinate",
                    "structured_interest_principal"} ->
               [ZeroT EXCEPT !["senior"] = Pct(amt, mp.senior_ratio),
                             !["subordinate"] = amt - Pct(amt, mp.senior_ratio)]
          [] m = "structured_mezzanine" ->
               [ZeroT EXCEPT !["senior"] = Pct(amt, mp.senior_ratio),
                             !["mezzanine"] = Pct(amt, mp.mezzanine_ratio),
                             !["subordinate"] = amt - Pct(amt, mp.senior_ratio)
                                                    - Pct(amt, mp.mezzanine_ratio)]
          [] OTHER -> ZeroT

\* the rate at which a tranche accrues its preferred return
AccrualRate(inp, tr) ==
    CASE inp.mode = "flat_periodic_distribution" -> inp.modeParams.periodic_rate
      [] inp.mode = "structured_mezzanine" /\ tr = "mezzanine" ->
             inp.modeParams.mezzanine_rate
      [] inp.mode = "structured_interest_principal" /\ tr = "subordinate" ->
             inp.modeParams.subordinate_rate
      [] OTHER -> inp.hurdle_rate

\* pro-rata share of the period's cash for each tranche
ProRataTrancheSplit(inp, cash) ==
    LET mp == inp.modeParams
        m == inp.mode
    IN  CASE m \in {"structured_senior_subordinate",
                    "structured_interest_principal"} ->
               [ZeroT EXCEPT !["senior"] = Pct(cash, mp.senior_ratio),
                             !["subordinate"] = cash - Pct(cash, mp.senior_ratio)]
          [] m = "structured_mezzanine" ->
               [ZeroT EXCEPT !["senior"] = Pct(cash, mp.senior_ratio),
                             !["mezzanine"] = Pct(cash, mp.mezzanine_ratio),
                             !["subordinate"] = cash - Pct(cash, mp.senior_ratio)
                                                     - Pct(cash, mp.mezzanine_ratio)]
          [] OTHER -> [ZeroT EXCEPT !["flat"] = cash]

\* the pipeline of one period for one mode: accrual, then the tiers in order
ProcessPeriod(inp, principal, accrued, ncf) ==
    LET m == inp.mode
        cash == CashForAllocation(ncf)
        acc == [x \in Tranches |->
                  IF x \in ModeTranches(m)
                  THEN HurdleAccrual(principal[x], accrued[x], AccrualRate(inp, x))
                  ELSE accrued[x]]
        share == ProRataTrancheSplit(inp, cash)
        tr == [x \in Tranches |->
                 IF m \in {"flat_periodic_distribution",
                           "structured_interest_principal"}
                 THEN HurdleThenPrincipal(share[x], principal[x], acc[x])
                 ELSE PrincipalThenHurdle(share[x], principal[x], acc[x])]
        carryCash == IF m \in {"flat_priority_repayment",
                               "flat_periodic_distribution"}
                     THEN tr["flat"].remaining ELSE 0
        cs == CarrySplit(carryCash, inp.management_carry)
    IN  [principal_repayment |-> [x \in Tranches |-> tr[x].pr],
         hurdle_distribution |-> [x \in Tranches |-> tr[x].hd],
         accrued_hurdle |-> acc,
         carry_gp |-> cs.gp,
         carry_lp |-> cs.lp,
         principal |-> [x \in Tranches |-> tr[x].p],
         accrued |-> [x \in Tranches |-> tr[x].a]]

\* ---- remaining-principal and payback analysis ----
RemainingPrincipalFromRepayment(initial, cumulative, remaining, repayment) ==
    remaining - repayment

\* remaining principal of a year, from the cumulative net cash flow
RemainingPrincipal(initial, cumulative, remaining, repayment) ==
    initial - cumulative

RECURSIVE FirstRecovered(_, _, _)
\* first period t >= from whose cumulative net cash flow is non-negative, else 0
FirstRecovered(amount, flows, from) ==
    IF from > Len(flows) THEN 0
    ELSE IF SeqSum(flows, from) - amount >= 0 THEN from
    ELSE FirstRecovered(amount, flows, from + 1)

StaticPaybackNoInterpolation(amount, flows) ==
    LET t == FirstRecovered(amount, flows, 1)
    IN  IF t = 0 THEN [recovered |-> FALSE, year |-> 0, whole |-> 0, num |-> 0, den |-> 1]
        ELSE [recovered |-> TRUE, year |-> t, whole |-> t, num |-> 0, den |-> 1]

\* static payback period: whole + num/den years, reached during year `year`
StaticPayback(amount, flows) ==
    LET t == FirstRecovered(amount, flows, 1)
    IN  IF t = 0 THEN [recovered |-> FALSE, year |-> 0, whole |-> 0, num |-> 0, den |-> 1]
        ELSE [recovered |-> TRUE, year |-> t, whole |-> t - 1,
              num |-> amount - SeqSum(flows, t - 1), den |-> flows[t]]

\* ---- runs ----
Runs == {"a", "b"}

NoParams == [p \in ParamNames |-> Missing]

NoInput == [investment_amount |-> 0, investment_period |-> 0, hurdle_rate |-> 0,
            management_carry |-> 0, cash_flows |-> <<>>, mode |-> "",
            modeParams |-> NoParams]

NoPayback == [recovered |-> FALSE, year |-> 0, whole |-> 0, num |-> 0, den |-> 1]

IdleRun == [pc |-> "idle", inp |-> NoInput, t |-> 0, principal |-> ZeroT,
            accrued |-> ZeroT, cumulative_cash_flow |-> 0, rp_cumulative |-> 0,
            remaining_principal |-> 0, ledger |-> <<>>, payback |-> NoPayback]

LeftOverTrancheState(run, inp) ==
    [principal |-> InitialPrincipal(inp), accrued |-> run.accrued]

\* tranche state of a run that starts: allocated by the run, owned by it alone
FreshTrancheState(run, inp) ==
    [principal |-> InitialPrincipal(inp), accrued |-> ZeroT]

RunCompleteEarly(run) == run.t >= 1

\* all periods of the run have been processed
RunComplete(run) == run.t = run.inp.investment_period

\* a run is accepted: its own state is allocated
StartRun(r, inp) ==
    /\ runs[r].pc \in {"idle", "done", "failed"}
    /\ ConfigValid(inp)
    /\ runs' = [runs EXCEPT ![r] =
                  [pc |-> "running", inp |-> inp, t |-> 0,
                   principal |-> FreshTrancheState(runs[r], inp).principal,
                   accrued |-> FreshTrancheState(runs[r], inp).accrued,
                   cumulative_cash_flow |-> -inp.investment_amount,
                   rp_cumulative |-> 0,
                   remaining_principal |-> inp.investment_amount,
                   ledger |-> <<>>, payback |-> NoPayback]]
    /\ UNCHANGED <<irr, ui, call, page>>

\* a run is refused before any period is processed
RejectConfig(r, inp) ==
    /\ runs[r].pc \in {"idle", "done", "failed"}
    /\ ~ConfigValid(inp)
    /\ runs' = [runs EXCEPT ![r] = [IdleRun EXCEPT !.pc = "failed", !.inp = inp]]
    /\ UNCHANGED <<irr, ui, call, page>>

\* one period: the tier pipeline, then the ledger row
ProcessNext(r) ==
    LET run == runs[r]
        t == run.t + 1
        ncf == run.inp.cash_flows[t]
        out == ProcessPeriod(run.inp, run.principal, run.accrued, ncf)
        cum == run.cumulative_cash_flow + ncf
        rpc == run.rp_cumulative + ncf
        repaid == out.principal_repayment["flat"] + out.principal_repayment["senior"]
                  + out.principal_repayment["mezzanine"]
                  + out.principal_repayment["subordinate"]
        rem == RemainingPrincipal(run.inp.investment_amount, rpc,
                                  run.remaining_principal, repaid)
        row == [year |-> t,
                net_cash_flow |-> ncf,
                beginning_principal_balance |-> run.principal,
                beginning_accrued_hurdle |-> run.accrued,
                accrued_hurdle |-> out.accrued_hurdle,
                principal_repayment |-> out.principal_repayment,
                hurdle_distribution |-> out.hurdle_distribution,
                carry_gp |-> out.carry_gp,
                carry_lp |-> out.carry_lp,
                ending_principal_balance |-> out.principal,
                ending_accrued_hurdle |-> out.accrued,
                cumulative_cash_flow |-> cum,
                remaining_principal |-> rem]
    IN  /\ run.pc = "running"
        /\ ~RunComplete(run)
        /\ run.t < run.inp.investment_period
        /\ runs' = [runs EXCEPT ![r] =
                      [run EXCEPT !.t = t,
                                  !.principal = out.principal,
                                  !.accrued = out.accrued,
                                  !.cumulative_cash_flow = cum,
                                  !.rp_cumulative = rpc,
                                  !.remaining_principal = rem,
                                  !.ledger = Append(run.ledger, row)]]
        /\ UNCHANGED <<irr, ui, call, page>>

\* the run returns: ledger plus payback analysis
FinishRun(r) ==
    LET run == runs[r]
    IN  /\ run.pc = "running"
        /\ RunComplete(run)
        /\ runs' = [runs EXCEPT ![r] =
                      [run EXCEPT !.pc = "done",
                                  !.payback = StaticPayback(run.inp.investment_amount,
                                                            run.inp.cash_flows)]]
        /\ UNCHANGED <<irr, ui, call, page>>

\* ---- inputs of the engine model ----
AmountValues == {1000}

HurdleValues == {0, 10}

CarryValues == {0, 20, 100}

FlowValues == {-300, 0, 400, 1500}

\* mode parameter values used for the mode that needs them
ParamValue(p) ==
    CASE p = "periodic_rate" -> 5
      [] p = "senior_ratio" -> 60
      [] p = "mezzanine_ratio" -> 25
      [] p = "mezzanine_rate" -> 12
      [] p = "subordinate_rate" -> 15

\* the selected mode's parameters, complete or with one of them left out
ModeParamChoices(mode) ==
    LET full == [p \in ParamNames |->
                   IF p \in RequiredParams(mode) THEN ParamValue(p) ELSE Missing]
    IN  {full} \cup {[full EXCEPT ![p] = Missing] : p \in RequiredParams(mode)}

ModeChoices == Modes \cup {"unknown_mode"}

MakeInput(amt, hr, mc, flows, mode, mp) ==
    [investment_amount |-> amt, investment_period |-> Len(flows),
     hurdle_rate |-> hr, management_carry |-> mc, cash_flows |-> flows,
     mode |-> mode, modeParams |-> mp]

\* the documented test scenario: 10000 invested, five years
ScenarioFlows == <<2000, 3000, 2500, 1500, 4000>>

ScenarioInput ==
    MakeInput(10000, 8, 20, ScenarioFlows, "flat_priority_repayment", NoParams)

Inputs ==
    {MakeInput(amt, hr, mc, flows, mode, mp) :
        amt \in AmountValues, hr \in HurdleValues, mc \in CarryValues,
        flows \in UNION {SeqsOfLen(FlowValues, n) : n \in 1..MaxPeriod},
        mode \in ModeChoices, mp \in UNION {ModeParamChoices(m) : m \in ModeChoices}}

EngineInputs ==
    {i \in Inputs : i.modeParams \in ModeParamChoices(i.mode)} \cup {ScenarioInput}

\* the smaller input set of the two-run specification
PairInputs ==
    {i \in EngineInputs : /\ i.hurdle_rate = 10
                          /\ i.management_carry = 20
                          /\ i.investment_amount \in AmountValues
                          /\ \A k \in 1..Len(i.cash_flows) :
                                 i.cash_flows[k] \in {-300, 1500}
                          /\ \/ i.mode = "flat_periodic_distribution"
                             \/ \A p \in RequiredParams(i.mode) :
                                    i.modeParams[p] # Missing}

(***************************************************************************)
(* PART 2 - Metrics library (FinanceUtils)                                 *)
(*                                                                         *)
(* A JavaScript number is modelled as a decimal fixed-point value with     *)
(* Scale units per 1, rounded to nearest, overflowing to +/-Infinity       *)
(* above Limit units, plus NaN.  Zero carries no sign.                     *)
(***************************************************************************)
HalfScale == 10 * 10

Scale == HalfScale * HalfScale

Limit == 2000 * Scale

NaN == [k |-> "nan", v |-> 0]

Inf(sg) == [k |-> "inf", v |-> sg]

Sign(n) == IF n < 0 THEN -1 ELSE 1

Fin(n) == IF Abs(n) > Limit THEN Inf(Sign(n)) ELSE [k |-> "fin", v |-> n]

FromInt(n) == Fin(n * Scale)

\* division of integers rounded to the nearest integer
RoundDiv(a, b) == Sign(a) * Sign(b) * ((Abs(a) + (Abs(b) \div 2)) \div Abs(b))

\* x * y / Scale for x, y in 0..Limit, computed in parts; Limit + 1 on overflow
MulUnits(x, y) ==
    LET xh == x \div Scale
        xl == x % Scale
        yh == y \div Scale
        yl == y % Scale
    IN  IF xh * yh > Limit \div Scale THEN Limit + 1
        ELSE xh * yh * Scale + xh * yl + xl * yh + RoundDiv(xl * yl, Scale)

\* x * Scale / y for x in 0..Limit, y in 1..Limit, by long division
DivUnits(x, y) ==
    LET q == x \div y
        r1 == (x % y) * HalfScale
        q1 == r1 \div y
        r2 == (r1 % y) * HalfScale
    IN  IF q > Limit \div Scale THEN Limit + 1
        ELSE q * Scale + q1 * HalfScale + RoundDiv(r2, y)

\* The arithmetic operators evaluate each operand once (as a JavaScript
\* expression does): Op(x, y) binds the operand values and applies OpOf.
Neg(a) == IF a.k = "nan" THEN NaN ELSE [a EXCEPT !.v = -a.v]

AddOf(a, b) ==
    CASE a.k = "nan" \/ b.k = "nan" -> NaN
      [] a.k = "inf" /\ b.k = "inf" -> IF a.v = b.v THEN a ELSE NaN
      [] a.k = "inf" -> a
      [] b.k = "inf" -> b
      [] OTHER -> Fin(a.v + b.v)

Add(x, y) == CHOOSE r \in {AddOf(a, b) : a \in {x}, b \in {y}} : TRUE

Sub(x, y) == CHOOSE r \in {AddOf(a, Neg(b)) : a \in {x}, b \in {y}} : TRUE

MulOf(a, b) ==
    CASE a.k = "nan" \/ b.k = "nan" -> NaN
      [] a.k = "inf" \/ b.k = "inf" ->
             IF a.v = 0 \/ b.v = 0 THEN NaN ELSE Inf(Sign(a.v) * Sign(b.v))
      [] OTHER -> Fin(Sign(a.v) * Sign(b.v) * MulUnits(Abs(a.v), Abs(b.v)))

Mul(x, y) == CHOOSE r \in {MulOf(a, b) : a \in {x}, b \in {y}} : TRUE

DivOf(a, b) ==
    CASE a.k = "nan" \/ b.k = "nan" -> NaN
      [] a.k = "inf" /\ b.k = "inf" -> NaN
      [] a.k = "inf" -> Inf(a.v * Sign(b.v))
      [] b.k = "inf" -> Fin(0)
      [] b.v = 0 -> IF a.v = 0 THEN NaN ELSE Inf(Sign(a.v))
      [] OTHER -> Fin(Sign(a.v) * Sign(b.v) * DivUnits(Abs(a.v), Abs(b.v)))

Div(x, y) == CHOOSE r \in {DivOf(a, b) : a \in {x}, b \in {y}} : TRUE

RECURSIVE Pow(_, _)
\* Math.pow for a whole exponent n >= 0; Math.pow(x, 0) is 1 for every x
Pow(x, n) == IF n = 0 THEN FromInt(1) ELSE Mul(Pow(x, n - 1), x)

\* Math.abs(a) < b
AbsLess(a, b) == a.k = "fin" /\ b.k = "fin" /\ Abs(a.v) < b.v

\* a === 0
IsZero(a) == a.k = "fin" /\ a.v = 0

\* ---- DateUtils ----
\* dates are counted in quarter days; a year is 365.25 days
QuarterDaysPerYear == 1461

yearsBetween(startDate, endDate) == (endDate - startDate) \div QuarterDaysPerYear

\* ---- FinanceUtils ----
RECURSIVE calculateNPVFrom(_, _, _)
calculateNPVFrom(flows, rate, n) ==
    IF n = 0 THEN Fin(0)
    ELSE Add(calculateNPVFrom(flows, rate, n - 1),
             Div(flows[n].amount, Pow(Add(FromInt(1), rate), flows[n].years)))

\* flows.reduce((npv, flow) => npv + flow.amount / (1 + rate) ^ flow.years, 0)
calculateNPV(flows, rate) == calculateNPVFrom(flows, rate, Len(flows))

RECURSIVE calculateDerivativeNPVFrom(_, _, _)
calculateDerivativeNPVFrom(flows, rate, n) ==
    IF n = 0 THEN Fin(0)
    ELSE Sub(calculateDerivativeNPVFrom(flows, rate, n - 1),
             Div(Mul(FromInt(flows[n].years), flows[n].amount),
                 Pow(Add(FromInt(1), rate), flows[n].years + 1)))

calculateDerivativeNPV(flows, rate) ==
    calculateDerivativeNPVFrom(flows, rate, Len(flows))

RECURSIVE Insert(_, _)
\* insertion of e into the date-sorted sequence s, after entries of equal date
Insert(s, e) ==
    IF s = <<>> THEN <<e>>
    ELSE IF s[Len(s)].date <= e.date THEN Append(s, e)
    ELSE Append(Insert(SubSeq(s, 1, Len(s) - 1), e), s[Len(s)])

RECURSIVE SortByDate(_)
\* Array.prototype.sort with (a, b) => a.date - b.date : stable, ascending
SortByDate(s) ==
    IF s = <<>> THEN <<>>
    ELSE Insert(SortByDate(SubSeq(s, 1, Len(s) - 1)), s[Len(s)])

\* what the caller's array holds after cashFlows.sort(...)
ArrayAfterSortOfCopy(cashFlows) == cashFlows

ArrayAfterSort(cashFlows) == SortByDate(cashFlows)

\* sortedFlows.map(flow => ({amount, years}))
MapFlows(sortedFlows) ==
    [n \in 1..Len(sortedFlows) |->
        [amount |-> FromInt(sortedFlows[n].amount),
         years |-> yearsBetween(sortedFlows[1].date, sortedFlows[n].date)]]

\* rate * 100
Percent(rate) == Mul(rate, FromInt(100))

\* ---- one call of FinanceUtils.calculateIRR ----
MaxFlows == 3

MaxIterations == 3

FlowDates == {0, QuarterDaysPerYear, 2 * QuarterDaysPerYear}

FlowAmounts == {-100, 110}

\* default arguments: guess = 0.1, tolerance = 0.0001
DefaultGuess == Fin(Scale \div 10)

DefaultTolerance == Fin(Scale \div 10000)

GuessValues == {DefaultGuess, Fin(0)}

ToleranceValues == {DefaultTolerance, Fin(Scale \div 2)}

CashFlowArrays ==
    UNION {SeqsOfLen([date : FlowDates, amount : FlowAmounts], n) : n \in 0..MaxFlows}

IrrIdle == [pc |-> "idle", cashFlows |-> <<>>, argument |-> <<>>, flows |-> <<>>,
            guess |-> Fin(0), tolerance |-> Fin(0), maxIterations |-> 0,
            rate |-> Fin(0), i |-> 0, result |-> Fin(0), converged |-> FALSE,
            updates |-> 0]

IrrCalled(cf, g, tol, m) ==
    [IrrIdle EXCEPT !.pc = "called", !.cashFlows = cf, !.argument = cf,
                    !.guess = g, !.tolerance = tol, !.maxIterations = m]

LoopContinuesInclusive(i, maxIterations) == i <= maxIterations

\* for (let i = 0; i < maxIterations; i++)
LoopContinues(i, maxIterations) == i < maxIterations

DerivativeNeverZero(dnpv) == FALSE

\* if (dnpv === 0) break
DerivativeIsZero(dnpv) == IsZero(dnpv)

TooFewFlowsOnlyEmpty(cashFlows) == Len(cashFlows) < 1

\* cashFlows.length < 2
TooFewFlows(cashFlows) == Len(cashFlows) < 2

\* if (cashFlows.length < 2) return 0
IrrReturnDegenerate ==
    /\ irr.pc = "called"
    /\ TooFewFlows(irr.cashFlows)
    /\ irr' = [irr EXCEPT !.pc = "done", !.result = Fin(0)]
    /\ UNCHANGED <<runs, ui, call, page>>

\* sort, start date, map to {amount, years}, rate = guess
IrrPrepare ==
    /\ irr.pc = "called"
    /\ ~TooFewFlows(irr.cashFlows)
    /\ irr' = [irr EXCEPT !.pc = "loop",
                          !.cashFlows = ArrayAfterSort(irr.cashFlows),
                          !.flows = MapFlows(SortByDate(irr.cashFlows)),
                          !.rate = irr.guess,
                          !.i = 0]
    /\ UNCHANGED <<runs, ui, call, page>>

\* if (Math.abs(npv) < tolerance) return rate * 100
IrrConverged ==
    /\ irr.pc = "loop"
    /\ LoopContinues(irr.i, irr.maxIterations)
    /\ AbsLess(calculateNPV(irr.flows, irr.rate), irr.tolerance)
    /\ irr' = [irr EXCEPT !.pc = "done", !.result = Percent(irr.rate),
                          !.converged = TRUE]
    /\ UNCHANGED <<runs, ui, call, page>>

\* if (dnpv === 0) break; ... return rate * 100
IrrBreak ==
    /\ irr.pc = "loop"
    /\ LoopContinues(irr.i, irr.maxIterations)
    /\ ~AbsLess(calculateNPV(irr.flows, irr.rate), irr.tolerance)
    /\ DerivativeIsZero(calculateDerivativeNPV(irr.flows, irr.rate))
    /\ irr' = [irr EXCEPT !.pc = "done", !.result = Percent(irr.rate)]
    /\ UNCHANGED <<runs, ui, call, page>>

\* rate = rate - npv / dnpv
IrrNewtonStep ==
    LET npv == calculateNPV(irr.flows, irr.rate)
        dnpv == calculateDerivativeNPV(irr.flows, irr.rate)
    IN  /\ irr.pc = "loop"
        /\ LoopContinues(irr.i, irr.maxIterations)
        /\ ~AbsLess(npv, irr.tolerance)
        /\ ~DerivativeIsZero(dnpv)
        /\ irr' = [irr EXCEPT !.rate = Sub(irr.rate, Div(npv, dnpv)),
                              !.i = irr.i + 1,
                              !.updates = irr.updates + 1]
        /\ UNCHANGED <<runs, ui, call, page>>

\* the loop ran maxIterations times: return rate * 100
IrrExhausted ==
    /\ irr.pc = "loop"
    /\ ~LoopContinues(irr.i, irr.maxIterations)
    /\ irr' = [irr EXCEPT !.pc = "done", !.result = Percent(irr.rate)]
    /\ UNCHANGED <<runs, ui, call, page>>

\* ---- one call of a guarded arithmetic helper ----
\* a value that is not of type number (undefined, null, a string)
Undefined == [k |-> "undef", v |-> 0]

\* typeof x !== 'number'
NotOfTypeNumber(x) == x.k = "undef"

\* isNaN(x) || !isFinite(x) of a number
NotFinite(x) == x.k \in {"nan", "inf"}

MetricNumbers ==
    {FromInt(n) : n \in {-3, 0, 2, 1000}} \cup {Fin(1), NaN, Inf(1), Inf(-1)}

MetricValues == MetricNumbers \cup {Undefined}

CallIdle == [pc |-> "idle", fn |-> "", a |-> Fin(0), b |-> Fin(0),
             result |-> Fin(0), guarded |-> FALSE]

Called(fn, a, b) == [CallIdle EXCEPT !.pc = "called", !.fn = fn, !.a = a, !.b = b]

InvestmentsNeverZero(totalInvestments) == FALSE

\* totalInvestments === 0
InvestmentsIsZero(totalInvestments) == IsZero(totalInvestments)

\* calculateDPI: if (totalInvestments === 0) return 0
calculateDPIGuarded ==
    /\ call.pc = "called" /\ call.fn = "calculateDPI"
    /\ InvestmentsIsZero(call.b)
    /\ call' = [call EXCEPT !.pc = "done", !.result = Fin(0), !.guarded = TRUE]
    /\ UNCHANGED <<runs, irr, ui, page>>

\* calculateDPI: return totalDistributions / totalInvestments
calculateDPIRatio ==
    /\ call.pc = "called" /\ call.fn = "calculateDPI"
    /\ ~InvestmentsIsZero(call.b)
    /\ call' = [call EXCEPT !.pc = "done", !.result = Div(call.a, call.b)]
    /\ UNCHANGED <<runs, irr, ui, page>>

\* typeof x !== 'number' || isNaN(x) || !isFinite(x)
ArgumentUnusable(x) == NotOfTypeNumber(x) \/ NotFinite(x)

ResultAlwaysUsable(result) == FALSE

\* isNaN(result) || !isFinite(result)
ResultUnusable(result) == NotFinite(result)

\* safeCalculatePercentage(numerator, denominator) of the charts module
safeCalculatePercentage(numerator, denominator) ==
    IF ArgumentUnusable(numerator) THEN Fin(0)
    ELSE IF ArgumentUnusable(denominator) \/ IsZero(denominator) THEN Fin(0)
    ELSE LET result == Mul(Div(numerator, denominator), FromInt(100))
         IN  IF ResultUnusable(result) THEN Fin(0) ELSE result

\* one of the guards returns 0
percentageGuarded ==
    /\ call.pc = "called" /\ call.fn = "safeCalculatePercentage"
    /\ \/ ArgumentUnusable(call.a)
       \/ ArgumentUnusable(call.b)
       \/ IsZero(call.b)
    /\ call' = [call EXCEPT !.pc = "done",
                             !.result = safeCalculatePercentage(call.a, call.b),
                             !.guarded = TRUE]
    /\ UNCHANGED <<runs, irr, ui, page>>

\* the percentage is computed and checked
percentageComputed ==
    /\ call.pc = "called" /\ call.fn = "safeCalculatePercentage"
    /\ ~ArgumentUnusable(call.a)
    /\ ~ArgumentUnusable(call.b)
    /\ ~IsZero(call.b)
    /\ call' = [call EXCEPT !.pc = "done",
                             !.result = safeCalculatePercentage(call.a, call.b)]
    /\ UNCHANGED <<runs, irr, ui, page>>

(***************************************************************************)
(* PART 3 - Front end (static/app.js, stateless version)                   *)
(***************************************************************************)

\* text of a number input, and what parseFloat / parseInt make of it
NumberTexts == {"", "-5", "0", "1", "2", "31", "40", "60", "100", "101", "400"}

NotANumber == [nan |-> TRUE, v |-> 0]

Number(n) == [nan |-> FALSE, v |-> n]

parseFloat(text) ==
    CASE text = "-5" -> Number(-5)
      [] text = "0" -> Number(0)
      [] text = "1" -> Number(1)
      [] text = "2" -> Number(2)
      [] text = "31" -> Number(31)
      [] text = "40" -> Number(40)
      [] text = "60" -> Number(60)
      [] text = "100" -> Number(100)
      [] text = "101" -> Number(101)
      [] text = "400" -> Number(400)
      [] OTHER -> NotANumber

\* the value attribute written for a stored number
NumberToText(n) ==
    CASE n = -5 -> "-5"
      [] n = 0 -> "0"
      [] n = 1 -> "1"
      [] n = 2 -> "2"
      [] n = 31 -> "31"
      [] n = 40 -> "40"
      [] n = 60 -> "60"
      [] n = 100 -> "100"
      [] n = 101 -> "101"
      [] n = 400 -> "400"

\* parseInt stops at the first character that is no digit; it agrees with
\* parseFloat on the whole-number texts
parseInt(text) == IF text = "2.9" THEN Number(2) ELSE parseFloat(text)

isNaN(x) == x.nan

TabIds == <<"basic-params", "cash-flows", "distribution-mode", "results",
            "visualization">>

\* tabMap[activeTabId] || 1
TabStep(tabId) ==
    CASE tabId = "basic-params" -> 1
      [] tabId = "cash-flows" -> 2
      [] tabId = "distribution-mode" -> 3
      [] tabId = "results" -> 4
      [] tabId = "visualization" -> 5
      [] OTHER -> 1

EmptyParams == [investment_target |-> "", investment_amount |-> 0,
                investment_period |-> 0, hurdle_rate |-> 0, management_carry |-> 0]

NoPayload == [basic_params |-> EmptyParams, cash_flows |-> <<>>, mode |-> "",
              modeParams |-> NoParams]

NoResult == [success |-> FALSE, payload |-> NoPayload]

\* showAlert(message, type): the alert on screen, named by the handler that
\* raised it and its type
Alert(by, type) == [by |-> by, type |-> type]

NoAlert == Alert("", "")

\* const AppState = {...}; the first tab is shown, nothing is pending;
\* ui.sent is the request the most recent handler or callback has sent
UiInit == [currentStep |-> 1, basicParams |-> EmptyParams, cashFlows |-> <<>>,
           mode |-> "", modeParams |-> NoParams, calculationResult |-> NoResult,
           tab |-> "basic-params", cashInputs |-> <<>>, busy |-> FALSE,
           pending |-> "", request |-> NoPayload, alert |-> NoAlert,
           shown |-> 0, sent |-> ""]

UiIdle == UiInit

showTabSettingStep(u, tabId) ==
    [u EXCEPT !.tab = tabId,
              !.currentStep = TabStep(tabId),
              !.shown = Max(u.shown, TabStep(tabId))]

\* showTab(tabId) with updateSidebar(tabId); u.shown records the highest step
\* whose tab showTab has shown since the page was loaded or reset
showTab(u, tabId) ==
    [u EXCEPT !.tab = tabId,
              !.currentStep = Max(u.currentStep, TabStep(tabId)),
              !.shown = Max(u.shown, TabStep(tabId))]

\* generateCashFlowInputs(years): one input per year, pre-filled with
\* AppState.cashFlows[i-1] where that is defined
generateCashFlowInputs(years, cashFlows) ==
    [i \in 1..years |-> IF i <= Len(cashFlows) THEN NumberToText(cashFlows[i]) ELSE ""]

BasicParamsValidAnyPeriod(target, amount, period, hurdle, carry) ==
    /\ target # ""
    /\ ~(isNaN(amount) \/ amount.v <= 0)
    /\ ~(isNaN(period) \/ period.v <= 0)
    /\ ~(isNaN(hurdle) \/ hurdle.v < 0 \/ hurdle.v > 100)
    /\ ~(isNaN(carry) \/ carry.v < 0 \/ carry.v > 100)

\* the checks of saveBasicParams on the parsed form
BasicParamsValid(target, amount, period, hurdle, carry) ==
    /\ target # ""
    /\ ~(isNaN(amount) \/ amount.v <= 0)
    /\ ~(isNaN(period) \/ period.v <= 0 \/ period.v > 30)
    /\ ~(isNaN(hurdle) \/ hurdle.v < 0 \/ hurdle.v > 100)
    /\ ~(isNaN(carry) \/ carry.v < 0 \/ carry.v > 100)

TargetTexts == {"", "Fund A"}

AmountTexts == {"", "0", "400"}

PeriodTexts == {"", "0", "1", "2", "2.9", "31"}

RateTexts == {"", "-5", "60", "101"}

\* texts tried in the k-th parameter field of a mode; fields the mode does
\* not show are not read
ModeFieldTexts(mode, k) ==
    CASE mode = "flat_periodic_distribution" /\ k = 1 -> {"", "-5", "40", "101"}
      [] mode = "structured_senior_subordinate" /\ k = 1 -> {"", "0", "40", "100"}
      [] mode = "structured_mezzanine" /\ k \in {1, 2} -> {"", "40", "60"}
      [] mode = "structured_mezzanine" /\ k = 3 -> {"", "40"}
      [] mode = "structured_interest_principal" /\ k \in {1, 2} -> {"", "40"}
      [] OTHER -> {""}

\* the user's part of the interface is usable
Usable(tabId) == ui.tab = tabId /\ ~ui.busy

\* disableInterface(message), then $.ajax(...): the request is outstanding
disableInterface(u, request) ==
    [u EXCEPT !.busy = TRUE, !.pending = request, !.sent = request]

enableInterfaceSkipped(u) == [u EXCEPT !.pending = "", !.sent = ""]

\* a callback of the request runs and calls enableInterface()
enableInterface(u) == [u EXCEPT !.busy = FALSE, !.pending = "", !.sent = ""]

saveBasicParams ==
    /\ Usable("basic-params")
    /\ \E target \in TargetTexts, at \in AmountTexts, pt \in PeriodTexts,
          ht \in RateTexts, ct \in RateTexts :
         LET amount == parseFloat(at)
             period == parseInt(pt)
             hurdle == parseFloat(ht)
             carry == parseFloat(ct)
             params == [investment_target |-> target,
                        investment_amount |-> amount.v,
                        investment_period |-> period.v,
                        hurdle_rate |-> hurdle.v,
                        management_carry |-> carry.v]
         IN  /\ BasicParamsValid(target, amount, period, hurdle, carry)
             /\ ui' = showTab([ui EXCEPT
                                 !.basicParams = params,
                                 !.cashInputs =
                                     generateCashFlowInputs(period.v, ui.cashFlows),
                                 !.alert = Alert("saveBasicParams", "success"), !.sent = ""],
                              "cash-flows")
    /\ UNCHANGED <<runs, irr, call, page>>

\* a failed check: alert and return
saveBasicParamsRejected ==
    /\ Usable("basic-params")
    /\ (\E target \in TargetTexts, at \in AmountTexts, pt \in PeriodTexts,
           ht \in RateTexts, ct \in RateTexts :
          ~BasicParamsValid(target, parseFloat(at), parseInt(pt),
                            parseFloat(ht), parseFloat(ct))) = TRUE
    /\ ui' = [ui EXCEPT !.alert = Alert("saveBasicParams", "error"), !.sent = ""]
    /\ UNCHANGED <<runs, irr, call, page>>

CashTexts == {"", "400"}

\* the user types into the cash-flow input of year i
editCashFlowInput ==
    /\ Usable("cash-flows")
    /\ \E i \in 1..Len(ui.cashInputs), text \in CashTexts :
         ui' = [ui EXCEPT !.cashInputs[i] = text, !.sent = ""]
    /\ UNCHANGED <<runs, irr, call, page>>

AllInputsPositive(inputs) == \A i \in 1..Len(inputs) : parseFloat(inputs[i]).v > 0

\* the loop of saveCashFlows: isValid stays true when no input parses to NaN
AllInputsValid(inputs) == \A i \in 1..Len(inputs) : ~isNaN(parseFloat(inputs[i]))

saveCashFlows ==
    /\ Usable("cash-flows")
    /\ AllInputsValid(ui.cashInputs)
    /\ ui' = showTab([ui EXCEPT !.cashFlows =
                         [i \in 1..Len(ui.cashInputs) |->
                             parseFloat(ui.cashInputs[i]).v],
                                !.alert = Alert("saveCashFlows", "success"), !.sent = ""],
                     "distribution-mode")
    /\ UNCHANGED <<runs, irr, call, page>>

saveCashFlowsRejected ==
    /\ Usable("cash-flows")
    /\ ~AllInputsValid(ui.cashInputs)
    /\ ui' = [ui EXCEPT !.alert = Alert("saveCashFlows", "error"), !.sent = ""]
    /\ UNCHANGED <<runs, irr, call, page>>

\* what a cash-flow input can hold: nothing, a distribution, a year without
\* cash flow, a year with a call of capital
SignedCashTexts == {"", "400", "0", "-5"}

\* the user types any of these into the cash-flow input of year i
editCashFlowInputSigned ==
    /\ Usable("cash-flows")
    /\ \E i \in 1..Len(ui.cashInputs), text \in SignedCashTexts :
         ui' = [ui EXCEPT !.cashInputs[i] = text, !.sent = ""]
    /\ UNCHANGED <<runs, irr, call, page>>

selectMode ==
    /\ Usable("distribution-mode")
    /\ \E mode \in Modes : ui' = [ui EXCEPT !.mode = mode, !.sent = ""]
    /\ UNCHANGED <<runs, irr, call, page>>

\* the mode parameters calculate() collects from the fields of the mode
CollectModeParams(mode, f1, f2, f3) ==
    CASE mode = "flat_periodic_distribution" ->
             [NoParams EXCEPT !["periodic_rate"] = f1.v]
      [] mode = "structured_senior_subordinate" ->
             [NoParams EXCEPT !["senior_ratio"] = f1.v]
      [] mode = "structured_mezzanine" ->
             [NoParams EXCEPT !["senior_ratio"] = f1.v,
                              !["mezzanine_ratio"] = f2.v,
                              !["mezzanine_rate"] = f3.v]
      [] mode = "structured_interest_principal" ->
             [NoParams EXCEPT !["senior_ratio"] = f1.v,
                              !["subordinate_rate"] = f2.v]
      [] OTHER -> NoParams

ModeFieldsNeverChecked(mode, f1, f2, f3) == TRUE

\* isValid of calculate() for the selected mode
ModeFieldsValid(mode, f1, f2, f3) ==
    CASE mode = "flat_periodic_distribution" ->
             ~(isNaN(f1) \/ f1.v < 0 \/ f1.v > 100)
      [] mode = "structured_senior_subordinate" ->
             ~(isNaN(f1) \/ f1.v <= 0 \/ f1.v >= 100)
      [] mode = "structured_mezzanine" ->
             /\ ~(isNaN(f1) \/ isNaN(f2) \/ isNaN(f3))
             /\ ~(f1.v + f2.v >= 100)
      [] mode = "structured_interest_principal" ->
             ~(isNaN(f1) \/ isNaN(f2))
      [] OTHER -> TRUE

\* calculate(): the request to /api/calculate is sent
calculate ==
    /\ Usable("distribution-mode")
    /\ ui.mode # ""
    /\ \E t1 \in ModeFieldTexts(ui.mode, 1), t2 \in ModeFieldTexts(ui.mode, 2),
          t3 \in ModeFieldTexts(ui.mode, 3) :
         LET f1 == parseFloat(t1)
             f2 == parseFloat(t2)
             f3 == parseFloat(t3)
             modeParams == CollectModeParams(ui.mode, f1, f2, f3)
             payload == [basic_params |-> ui.basicParams,
                         cash_flows |-> ui.cashFlows,
                         mode |-> ui.mode,
                         modeParams |-> modeParams]
         IN  /\ ModeFieldsValid(ui.mode, f1, f2, f3)
             /\ ui' = disableInterface([ui EXCEPT !.modeParams = modeParams,
                                                   !.request = payload],
                                       "calculate")
    /\ UNCHANGED <<runs, irr, call, page>>

\* calculate(): no mode selected, or a field of the mode is invalid
calculateRejected ==
    /\ Usable("distribution-mode")
    /\ \/ ui.mode = ""
       \/ (\E t1 \in ModeFieldTexts(ui.mode, 1), t2 \in ModeFieldTexts(ui.mode, 2),
              t3 \in ModeFieldTexts(ui.mode, 3) :
             ~ModeFieldsValid(ui.mode, parseFloat(t1), parseFloat(t2),
                              parseFloat(t3))) = TRUE
    /\ ui' = [ui EXCEPT !.alert = IF ui.mode = ""
                                  THEN Alert("calculate", "warning")
                                  ELSE Alert("calculate", "error"),
                         !.sent = ""]
    /\ UNCHANGED <<runs, irr, call, page>>

\* success callback with response.success
calculateSucceeded ==
    /\ ui.pending = "calculate"
    /\ ui' = showTab([enableInterface(ui) EXCEPT
                         !.request = NoPayload,
                         !.calculationResult =
                             [success |-> TRUE, payload |-> ui.request],
                         !.alert = Alert("calculateResponse", "success")],
                     "results")
    /\ UNCHANGED <<runs, irr, call, page>>

\* success callback without response.success, or the error callback
calculateFailed ==
    /\ ui.pending = "calculate"
    /\ ui' = [enableInterface(ui) EXCEPT
                 !.request = NoPayload,
                 !.alert = Alert("calculateResponse", "error")]
    /\ UNCHANGED <<runs, irr, call, page>>

SidebarClickableAlways(index, currentStep) == TRUE

\* if (index < AppState.currentStep)
SidebarClickable(index, currentStep) == index < currentStep

\* click on a sidebar step item that lies before the current step
sidebarClick ==
    /\ ~ui.busy
    /\ \E index \in 1..Len(TabIds) :
         /\ SidebarClickable(index, ui.currentStep)
         /\ ui' = showTab([ui EXCEPT !.sent = ""], TabIds[index])
    /\ UNCHANGED <<runs, irr, call, page>>

\* click on a sidebar step item at or beyond the current step
sidebarClickIgnored ==
    /\ ~ui.busy
    /\ \E index \in 1..Len(TabIds) : ~SidebarClickable(index, ui.currentStep)
    /\ ui' = [ui EXCEPT !.sent = ""]
    /\ UNCHANGED <<runs, irr, call, page>>

\* importExcel(): a file is chosen and sent to /api/import
importExcel ==
    /\ ui.tab \in {"basic-params", "cash-flows"}
    /\ ~ui.busy
    /\ ui' = disableInterface(ui, "import")
    /\ UNCHANGED <<runs, irr, call, page>>

\* what the server read from the workbook
ImportedData ==
    {[basic_params |-> [investment_target |-> "Fund A", investment_amount |-> 400,
                        investment_period |-> n, hurdle_rate |-> 60,
                        management_carry |-> 60],
      cash_flows |-> cf] :
        n \in {1, 2}, cf \in SeqsOfLen({400}, 1) \cup SeqsOfLen({400}, 2)}

\* success callback of the import with response.success
importSucceeded ==
    /\ ui.pending = "import"
    /\ \E data \in ImportedData :
         LET inputs == generateCashFlowInputs(data.basic_params.investment_period,
                                              ui.cashFlows)
         IN  ui' = [enableInterface(ui) EXCEPT
                      !.basicParams = data.basic_params,
                      !.cashInputs =
                          [i \in 1..Len(inputs) |->
                              IF i <= Len(data.cash_flows)
                              THEN NumberToText(data.cash_flows[i])
                              ELSE inputs[i]],
                      !.alert = Alert("importResponse", "success")]
    /\ UNCHANGED <<runs, irr, call, page>>

\* success callback without response.success, or the error callback
importFailed ==
    /\ ui.pending = "import"
    /\ ui' = [enableInterface(ui) EXCEPT
                 !.alert = Alert("importResponse", "error")]
    /\ UNCHANGED <<runs, irr, call, page>>

\* exportResults(): without a result a warning, otherwise the stored result
\* is sent to /api/export; the export control belongs to the results tab
exportResults ==
    /\ Usable("results")
    /\ ui' = IF ui.calculationResult = NoResult
             THEN [ui EXCEPT !.alert = Alert("exportResults", "warning"), !.sent = ""]
             ELSE disableInterface(ui, "export")
    /\ UNCHANGED <<runs, irr, call, page>>

\* success callback of the export: the workbook is downloaded
exportSucceeded ==
    /\ ui.pending = "export"
    /\ ui' = enableInterface(ui)
    /\ UNCHANGED <<runs, irr, call, page>>

\* error callback of the export
exportFailed ==
    /\ ui.pending = "export"
    /\ ui' = [enableInterface(ui) EXCEPT !.alert = Alert("exportResponse", "error")]
    /\ UNCHANGED <<runs, irr, call, page>>

resetAppStateKeepingStep(u) ==
    [u EXCEPT !.basicParams = EmptyParams,
              !.cashFlows = <<>>,
              !.mode = "",
              !.modeParams = NoParams,
              !.calculationResult = NoResult,
              !.shown = 0]

\* the six assignments to AppState at the head of resetAllData
resetAppState(u) ==
    [u EXCEPT !.basicParams = EmptyParams,
              !.cashFlows = <<>>,
              !.mode = "",
              !.modeParams = NoParams,
              !.calculationResult = NoResult,
              !.currentStep = 1,
              !.shown = 0]

\* resetAllData() with the confirmation accepted; $.post('/api/reset') is
\* sent and its answer is not awaited
resetAllData ==
    /\ ~ui.busy
    /\ ui' = showTab([resetAppState(ui) EXCEPT
                         !.cashInputs = <<>>,
                         !.alert = Alert("resetAllData", "info"),
                         !.sent = "reset"],
                     "basic-params")
    /\ UNCHANGED <<runs, irr, call, page>>

\* resetAllData() with the confirmation declined
resetDeclined ==
    /\ ~ui.busy
    /\ ui' = [ui EXCEPT !.sent = ""]
    /\ UNCHANGED <<runs, irr, call, page>>

\* setTimeout(..., 3000) of showAlert: the alert fades out and is removed
alertDismissed ==
    /\ ui.alert # NoAlert
    /\ ui' = [ui EXCEPT !.alert = NoAlert]
    /\ UNCHANGED <<runs, irr, call, page>>


(***************************************************************************)
(* PART 4 - Charts module (static/charts.js and the fuller charts module)  *)
(*                                                                         *)
(* charts.live[c] counts the Chart instances alive on canvas c and         *)
(* charts.ref[c] is the window.<name>Instance global of that canvas:       *)
(* "none" (undefined or null), "live", or "destroyed" (still referenced    *)
(* after destroy()).  The page loads Chart.js 4 (static/README.md), whose  *)
(* constructor throws when the canvas is already in use.  CHART_CONFIG and *)
(* the canvases are taken to exist.                                        *)
(***************************************************************************)
Canvases == {"cashFlowChart", "distributionPieChart", "metricsChart", "timeSeriesChart"}

\* the two versions of the charts module
ChartModules == {"charts.js", "part_001"}

\* calculationResult read by redrawAllCharts: null, or the parts it holds
NullResult == {"null"}

ResultValues == {NullResult, {"cash_flows", "distributions", "metrics"}, {"metrics"}, {"cash_flows"}}

ChartsIdle ==
    [module |-> "", live |-> [c \in Canvases |-> 0],
     ref |-> [c \in Canvases |-> "none"], calculationResult |-> NullResult,
     theme |-> "light", threw |-> FALSE, by |-> ""]

\* entry of a call: nothing has been thrown yet
Entered(c, by) == [c EXCEPT !.threw = FALSE, !.by = by]

\* an exception leaves the function
Throw(c) == [c EXCEPT !.threw = TRUE]

\* instance.destroy(): releases the canvas once
Destroy(c, canvas) ==
    IF c.ref[canvas] = "live"
    THEN [c EXCEPT !.live[canvas] = @ - 1, !.ref[canvas] = "destroyed"]
    ELSE c

\* if (window.xInstance) { window.xInstance.destroy(); }
DestroyPrevious(c, canvas) ==
    IF c.ref[canvas] # "none" THEN Destroy(c, canvas) ELSE c

\* window.xInstance = new Chart(ctx, ...)
NewChartStored(c, canvas) ==
    IF c.live[canvas] > 0 THEN Throw(c)
    ELSE [c EXCEPT !.live[canvas] = @ + 1, !.ref[canvas] = "live"]

\* new Chart(ctx, ...) whose instance is kept nowhere
NewChartUnstored(c, canvas) ==
    IF c.live[canvas] > 0 THEN Throw(c)
    ELSE [c EXCEPT !.live[canvas] = @ + 1]

createCashFlowChart(c, data) ==
    IF c.module = "charts.js"
    THEN IF ~data THEN c ELSE NewChartUnstored(c, "cashFlowChart")
    ELSE IF ~data THEN Throw(c)
         ELSE NewChartStored(DestroyPrevious(c, "cashFlowChart"), "cashFlowChart")

createDistributionPieChart(c, data) ==
    IF ~data THEN Throw(c)
    ELSE NewChartStored(DestroyPrevious(c, "distributionPieChart"), "distributionPieChart")

createMetricsChart(c, data) ==
    IF c.module = "charts.js"
    THEN IF ~data THEN c ELSE NewChartUnstored(c, "metricsChart")
    ELSE IF ~data THEN Throw(DestroyPrevious(c, "metricsChart"))
         ELSE NewChartStored(DestroyPrevious(c, "metricsChart"), "metricsChart")

createTimeSeriesDistributionChart(c, data) ==
    IF ~data THEN Throw(DestroyPrevious(c, "timeSeriesChart"))
    ELSE NewChartStored(DestroyPrevious(c, "timeSeriesChart"), "timeSeriesChart")

\* the create function of a canvas
CreateChart(c, canvas, data) ==
    CASE canvas = "cashFlowChart" -> createCashFlowChart(c, data)
      [] canvas = "distributionPieChart" -> createDistributionPieChart(c, data)
      [] canvas = "metricsChart" -> createMetricsChart(c, data)
      [] OTHER -> createTimeSeriesDistributionChart(c, data)

\* the next call of a sequence runs unless the one before it threw
Then(c, run, canvas) == IF c.threw \/ ~run THEN c ELSE CreateChart(c, canvas, TRUE)

RedrawCharts(c) ==
    IF c.calculationResult = NullResult THEN c
    ELSE LET r == c.calculationResult
             c1 == Then(c, "cash_flows" \in r, "cashFlowChart")
             c2 == Then(c1, "distributions" \in r, "distributionPieChart")
             c3 == Then(c2, "distributions" \in r, "timeSeriesChart")
         IN  Then(c3, "metrics" \in r, "metricsChart")

\* window[instanceName].destroy(); window[instanceName] = null
DestroyAndClear(c, canvas) ==
    IF c.ref[canvas] # "none"
    THEN [Destroy(c, canvas) EXCEPT !.ref[canvas] = "none"]
    ELSE c

DestroyAll(c) ==
    LET c1 == DestroyAndClear(c, "cashFlowChart")
        c2 == DestroyAndClear(c1, "distributionPieChart")
        c3 == DestroyAndClear(c2, "metricsChart")
    IN  DestroyAndClear(c3, "timeSeriesChart")

\* a caller creates the chart of one canvas
createChart ==
    /\ charts.module # ""
    /\ \E canvas \in Canvases, data \in BOOLEAN :
          charts' = CreateChart(Entered(charts, canvas), canvas, data)
    /\ UNCHANGED <<runs, irr, ui, call, clip, timer, quick>>

redrawAllCharts ==
    /\ charts.module # ""
    /\ charts' = RedrawCharts(Entered(charts, "redrawAllCharts"))
    /\ UNCHANGED <<runs, irr, ui, call, clip, timer, quick>>

updateChartTheme ==
    /\ charts.module # ""
    /\ \E theme \in {"light", "dark"} :
          charts' = RedrawCharts([Entered(charts, "updateChartTheme") EXCEPT !.theme = theme])
    /\ UNCHANGED <<runs, irr, ui, call, clip, timer, quick>>

destroyAllCharts ==
    /\ charts.module # ""
    /\ charts' = DestroyAll(Entered(charts, "destroyAllCharts"))
    /\ UNCHANGED <<runs, irr, ui, call, clip, timer, quick>>

\* the page stores a new calculation result
resultStored ==
    /\ charts.module # ""
    /\ \E r \in ResultValues :
          charts' = [Entered(charts, "resultStored") EXCEPT !.calculationResult = r]
    /\ UNCHANGED <<runs, irr, ui, call, clip, timer, quick>>

(***************************************************************************)
(* PART 5 - Clipboard test page (testOptimizedClipboard)                   *)
(*                                                                         *)
(* One action per turn of the event loop: the click that starts the test,  *)
(* the confirming click, the animation frame, the toBlob callback, and the *)
(* settling of each clipboard promise.  clip.reports is what the run has   *)
(* appended to the result box, clip.failed the copy methods that failed.   *)
(***************************************************************************)
MaxClipRuns == 3

ClipIdle ==
    [pc |-> "idle", chart |-> FALSE, modern |-> FALSE, text |-> FALSE,
     readable |-> FALSE, reports |-> <<>>, failed |-> {}, downloaded |-> FALSE,
     n |-> 0]

\* the page the test runs on: testChartInstance, the clipboard methods the
\* browser offers, and whether the canvas can be read (not tainted)
ClipPages ==
    {[ClipIdle EXCEPT !.chart = ch, !.modern = m, !.text = t, !.readable = r] :
        ch \in BOOLEAN, m \in BOOLEAN, t \in BOOLEAN, r \in BOOLEAN}

Report(c, outcome) == [c EXCEPT !.pc = "done", !.reports = Append(@, outcome)]

\* the outer catch block: the download is triggered, or it fails too
DownloadFallback(c) ==
    IF c.readable
    THEN Report([c EXCEPT !.downloaded = TRUE], "download")
    ELSE Report(c, "error")

\* method 2: the base64 text, then the throw that reaches the catch block
TryTextCopy(c) ==
    IF ~c.text THEN DownloadFallback(c)
    ELSE IF ~c.readable THEN DownloadFallback([c EXCEPT !.failed = @ \cup {"text"}])
    ELSE [c EXCEPT !.pc = "textWrite"]

\* method 1: the modern API when the browser has it
TryModernAPI(c) ==
    IF c.modern THEN [c EXCEPT !.pc = "modernFrame"] ELSE TryTextCopy(c)

\* copyWithModernAPI rejected: caught as modernError, method 2 follows
ModernRejected(c) == TryTextCopy([c EXCEPT !.failed = @ \cup {"modern"}])

\* the test button is clicked
testOptimizedClipboard ==
    /\ clip.pc \in {"idle", "done"}
    /\ clip.n < MaxClipRuns
    /\ clip' = IF ~clip.chart
               THEN DownloadFallback([clip EXCEPT !.n = @ + 1, !.failed = {},
                                                  !.downloaded = FALSE])
               ELSE [clip EXCEPT !.n = @ + 1, !.pc = "awaitConfirm",
                                 !.reports = <<>>, !.failed = {},
                                 !.downloaded = FALSE]
    /\ UNCHANGED <<runs, irr, ui, call, charts, timer, quick>>

\* the user clicks the confirm button
confirmClicked ==
    /\ clip.pc = "awaitConfirm"
    /\ clip' = TryModernAPI(clip)
    /\ UNCHANGED <<runs, irr, ui, call, charts, timer, quick>>

\* requestAnimationFrame callback: canvas.toBlob is called
animationFrame ==
    /\ clip.pc = "modernFrame"
    /\ clip' = IF clip.readable THEN [clip EXCEPT !.pc = "modernBlob"]
               ELSE ModernRejected(clip)
    /\ UNCHANGED <<runs, irr, ui, call, charts, timer, quick>>

\* toBlob callback: a null blob rejects, otherwise clipboard.write is awaited
blobReady ==
    /\ clip.pc = "modernBlob"
    /\ \E blob \in BOOLEAN :
          clip' = IF blob THEN [clip EXCEPT !.pc = "modernWrite"]
                  ELSE ModernRejected(clip)
    /\ UNCHANGED <<runs, irr, ui, call, charts, timer, quick>>

\* navigator.clipboard.write resolved: resolve(), success is reported
modernWriteResolved ==
    /\ clip.pc = "modernWrite"
    /\ clip' = Report(clip, "modern")
    /\ UNCHANGED <<runs, irr, ui, call, charts, timer, quick>>

\* navigator.clipboard.write rejected inside the async toBlob callback:
\* neither resolve nor reject is called, the promise stays pending
modernWriteRejected ==
    /\ clip.pc = "modernWrite"
    /\ clip' = [clip EXCEPT !.pc = "pending", !.failed = @ \cup {"modern"}]
    /\ UNCHANGED <<runs, irr, ui, call, charts, timer, quick>>

\* navigator.clipboard.writeText resolved
textWriteResolved ==
    /\ clip.pc = "textWrite"
    /\ clip' = Report(clip, "text")
    /\ UNCHANGED <<runs, irr, ui, call, charts, timer, quick>>

\* navigator.clipboard.writeText rejected: caught, then the download
textWriteRejected ==
    /\ clip.pc = "textWrite"
    /\ clip' = DownloadFallback([clip EXCEPT !.failed = @ \cup {"text"}])
    /\ UNCHANGED <<runs, irr, ui, call, charts, timer, quick>>

(***************************************************************************)
(* PART 6 - Utils.debounce and Utils.throttle (static/utils.js)            *)
(*                                                                         *)
(* Time is counted in whole milliseconds.  A timer set with setTimeout     *)
(* runs when its delay has passed: time does not advance past a timer that *)
(* is due, but a call may still arrive at that same instant, before the    *)
(* timer callback runs.  func returns normally and does not call the       *)
(* wrapper itself.                                                         *)
(***************************************************************************)
MaxTime == 4

MaxCalls == 3

\* arguments a caller passes
CallArgs == {"a", "b"}

\* wait / limit given to debounce and throttle
Delays == {0, 1, 2}

TimerIdle ==
    [kind |-> "", delay |-> 0, now |-> 0, timeout |-> 0, nextId |-> 1,
     pending |-> {}, inThrottle |-> FALSE, calls |-> <<>>, invoked |-> <<>>,
     dropped |-> 0]

\* the wrapper returned by Utils.debounce(func, wait) / Utils.throttle(func, limit)
Wrapped(kind, delay) == [TimerIdle EXCEPT !.kind = kind, !.delay = delay]

\* setTimeout(callback, delay): a new timer, its id
SetTimeout(t, delay) ==
    [t EXCEPT !.pending = @ \cup {[id |-> t.nextId, due |-> t.now + delay]},
              !.nextId = @ + 1]

KeepTimeout(pending, id) == pending

\* clearTimeout(id): the timer with that id, if any, will not run
ClearTimeout(pending, id) == {p \in pending : p.id # id}

\* func(...args) / func.apply(this, args)
Invoke(t, args) == [t EXCEPT !.invoked = Append(@, [at |-> t.now, args |-> args])]

\* the arguments captured by the closure of the timer with this id
ArgsOf(t, id) == t.calls[id].args

\* executedFunction(...args): clearTimeout(timeout); timeout = setTimeout(later, wait)
callDebounced ==
    /\ timer.kind = "debounce"
    /\ Len(timer.calls) < MaxCalls
    /\ timer.now + timer.delay <= MaxTime
    /\ \E args \in CallArgs :
          LET called == [timer EXCEPT !.calls = Append(@, [at |-> timer.now, args |-> args]),
                                      !.pending = ClearTimeout(@, timer.timeout)]
          IN  timer' = [SetTimeout(called, timer.delay) EXCEPT !.timeout = called.nextId]
    /\ UNCHANGED <<runs, irr, ui, call, charts, clip, quick>>

\* later(): clearTimeout(timeout); func(...args)
later ==
    /\ timer.kind = "debounce"
    /\ \E p \in timer.pending :
          /\ p.due <= timer.now
          /\ LET fired == [timer EXCEPT !.pending = ClearTimeout(@ \ {p}, timer.timeout)]
             IN  timer' = Invoke(fired, ArgsOf(timer, p.id))
    /\ UNCHANGED <<runs, irr, ui, call, charts, clip, quick>>

NeverInThrottle(t) == FALSE

\* inThrottle of the closure
InThrottle(t) == t.inThrottle

\* the throttled function, !inThrottle: func.apply(this, args); inThrottle = true;
\* setTimeout(() => inThrottle = false, limit)
callThrottled ==
    /\ timer.kind = "throttle"
    /\ Len(timer.calls) < MaxCalls
    /\ timer.now + timer.delay <= MaxTime
    /\ ~InThrottle(timer)
    /\ \E args \in CallArgs :
          LET called == [timer EXCEPT !.calls = Append(@, [at |-> timer.now, args |-> args])]
          IN  timer' = SetTimeout([Invoke(called, args) EXCEPT !.inThrottle = TRUE],
                                  timer.delay)
    /\ UNCHANGED <<runs, irr, ui, call, charts, clip, quick>>

\* the throttled function, inThrottle: nothing happens
callThrottledDropped ==
    /\ timer.kind = "throttle"
    /\ Len(timer.calls) < MaxCalls
    /\ InThrottle(timer)
    /\ \E args \in CallArgs :
          timer' = [timer EXCEPT !.calls = Append(@, [at |-> timer.now, args |-> args]),
                                 !.dropped = @ + 1]
    /\ UNCHANGED <<runs, irr, ui, call, charts, clip, quick>>

\* () => inThrottle = false
throttleReset ==
    /\ timer.kind = "throttle"
    /\ \E p \in timer.pending :
          /\ p.due <= timer.now
          /\ timer' = [timer EXCEPT !.pending = @ \ {p}, !.inThrottle = FALSE]
    /\ UNCHANGED <<runs, irr, ui, call, charts, clip, quick>>

\* a millisecond passes
tick ==
    /\ timer.kind # ""
    /\ timer.now < MaxTime
    /\ \A p \in timer.pending : p.due > timer.now
    /\ timer' = [timer EXCEPT !.now = @ + 1]
    /\ UNCHANGED <<runs, irr, ui, call, charts, clip, quick>>

(***************************************************************************)
(* PART 7 - Quick adjustment of the cash flows (static/app.js) against the *)
(* documented calculateCashFlows algorithm.  Numbers are the fixed-point   *)
(* numbers of PART 2; the text of an input field is the number it shows.   *)
(***************************************************************************)
MaxQuickYears == 3

\* an input field that holds no text
EmptyText == [k |-> "empty", v |-> 0]

\* units of one hundredth
Cent == Scale \div HalfScale

\* x.toFixed(2): two decimals, a tie is rounded away from zero
toFixed2(x) ==
    IF x.k # "fin" THEN x
    ELSE Fin(Sign(x.v) * ((Abs(x.v) + Cent \div 2) \div Cent) * Cent)

\* Math.round(x * 100) / 100: two decimals, a tie is rounded up
MathRound2(x) ==
    IF x.k # "fin" THEN x
    ELSE Fin(((x.v + Cent \div 2) \div Cent) * Cent)

\* 1 + rate / 100
GrowthFactor(rate) == Add(FromInt(1), Div(rate, FromInt(100)))

\* n % freq === 0 for whole numbers (NaN when freq is 0)
RemainderIsZero(n, freq) == freq.v # 0 /\ n % Abs(freq.v \div Scale) = 0

RECURSIVE QuickFlow(_, _, _, _)
\* currentFlow when iteration i of applyQuickAdjustment writes its input
QuickFlow(firstYear, freq, rate, i) ==
    IF i = 1 THEN firstYear
    ELSE LET before == QuickFlow(firstYear, freq, rate, i - 1)
         IN  IF RemainderIsZero(i - 1, freq)
             THEN Mul(before, GrowthFactor(rate))
             ELSE before

RECURSIVE DocumentedValue(_, _, _, _)
\* currentValue when calculateCashFlows pushes the entry of a year
DocumentedValue(firstYear, growthFreq, growthRate, year) ==
    IF year = 0 THEN firstYear
    ELSE LET before == DocumentedValue(firstYear, growthFreq, growthRate, year - 1)
         IN  IF year > 1 /\ RemainderIsZero(year - 1, growthFreq)
             THEN Mul(before, GrowthFactor(growthRate))
             ELSE before

\* calculateCashFlows(firstYear, growthFreq, growthRate, totalYears)
calculateCashFlows(firstYear, growthFreq, growthRate, totalYears) ==
    [year \in 1..totalYears |->
        [year |-> year,
         value |-> MathRound2(DocumentedValue(firstYear, growthFreq, growthRate, year)),
         isGrowthYear |-> year > 1 /\ RemainderIsZero(year - 1, growthFreq)]]

\* values of the fields read by applyQuickAdjustment
QuickAmounts == {Fin(1000000), Fin(-1250), Fin(3333), NaN}

QuickFrequencies == {FromInt(n) : n \in 0..2} \cup {NaN}

QuickRates == {FromInt(0), FromInt(10), Fin(-125000), NaN}

QuickYears == {FromInt(n) : n \in 0..MaxQuickYears} \cup {NaN}

QuickIdle ==
    [pc |-> "idle", firstYear |-> NaN, freq |-> NaN, rate |-> NaN, years |-> NaN,
     inputs |-> <<>>, written |-> {}, alert |-> ""]

\* the fields and the cash-flow inputs on the page when the button is clicked
QuickCalled(firstYear, freq, rate, years, existing) ==
    [QuickIdle EXCEPT !.pc = "called", !.firstYear = firstYear, !.freq = freq,
                      !.rate = rate, !.years = years,
                      !.inputs = [i \in 1..existing |-> EmptyText]]

\* isNaN(firstYear) || isNaN(freq) || isNaN(rate) || isNaN(years)
QuickInvalid(q) ==
    q.firstYear.k = "nan" \/ q.freq.k = "nan" \/ q.rate.k = "nan" \/ q.years.k = "nan"

\* if ($('#cashFlowInputs').is(':empty')) generateCashFlowInputs(years)
InputsFor(q) ==
    IF q.inputs = <<>> THEN [i \in 1..(q.years.v \div Scale) |-> EmptyText]
    ELSE q.inputs

\* the loop: $(`#cashFlow_${i}`).val(currentFlow.toFixed(2)) for the inputs
\* that exist
FilledInputs(q) ==
    [i \in 1..Len(InputsFor(q)) |->
        IF i <= q.years.v \div Scale
        THEN toFixed2(QuickFlow(q.firstYear, q.freq, q.rate, i))
        ELSE InputsFor(q)[i]]

applyQuickAdjustment ==
    /\ quick.pc = "called"
    /\ ~QuickInvalid(quick)
    /\ quick' = [quick EXCEPT !.pc = "done", !.inputs = FilledInputs(quick),
                              !.written = 1..Min(Len(InputsFor(quick)), quick.years.v \div Scale),
                              !.alert = "success"]
    /\ UNCHANGED <<runs, irr, ui, call, charts, clip, timer>>

applyQuickAdjustmentRejected ==
    /\ quick.pc = "called"
    /\ QuickInvalid(quick)
    /\ quick' = [quick EXCEPT !.pc = "rejected", !.alert = "warning"]
    /\ UNCHANGED <<runs, irr, ui, call, charts, clip, timer>>

\* ---- the page helpers at rest ----
PageIdle ==
    /\ charts = ChartsIdle
    /\ clip = ClipIdle
    /\ timer = TimerIdle
    /\ quick = QuickIdle

(***************************************************************************)
(* Specifications                                                          *)
(***************************************************************************)
InitEngine ==
    /\ runs = [r \in Runs |-> IdleRun]
    /\ irr = IrrIdle
    /\ ui = UiIdle
    /\ call = CallIdle
    /\ PageIdle

NextEngine ==
    \/ runs["a"].pc = "idle" /\ \E inp \in EngineInputs : StartRun("a", inp)
    \/ runs["a"].pc = "idle" /\ \E inp \in EngineInputs : RejectConfig("a", inp)
    \/ ProcessNext("a")
    \/ FinishRun("a")

SpecEngine == InitEngine /\ [][NextEngine]_vars

NextRuns ==
    \/ \E r \in Runs, inp \in PairInputs : StartRun(r, inp)
    \/ \E r \in Runs, inp \in PairInputs : RejectConfig(r, inp)
    \/ \E r \in Runs : ProcessNext(r)
    \/ \E r \in Runs : FinishRun(r)

SpecRuns == InitEngine /\ [][NextRuns]_vars

InitIRR ==
    /\ runs = [r \in Runs |-> IdleRun]
    /\ ui = UiIdle
    /\ call = CallIdle
    /\ PageIdle
    /\ irr \in {IrrCalled(cf, g, tol, m) :
                  cf \in CashFlowArrays, g \in GuessValues,
                  tol \in ToleranceValues, m \in 0..MaxIterations}

NextIRR ==
    \/ IrrReturnDegenerate
    \/ IrrPrepare
    \/ IrrConverged
    \/ IrrBreak
    \/ IrrNewtonStep
    \/ IrrExhausted

SpecIRR == InitIRR /\ [][NextIRR]_vars

InitUI ==
    /\ runs = [r \in Runs |-> IdleRun]
    /\ irr = IrrIdle
    /\ ui = UiInit
    /\ call = CallIdle
    /\ PageIdle

NextUI ==
    \/ saveBasicParams
    \/ saveBasicParamsRejected
    \/ editCashFlowInput
    \/ saveCashFlows
    \/ saveCashFlowsRejected
    \/ selectMode
    \/ calculate
    \/ calculateRejected
    \/ calculateSucceeded
    \/ calculateFailed
    \/ sidebarClick
    \/ sidebarClickIgnored
    \/ importExcel
    \/ importSucceeded
    \/ importFailed
    \/ exportResults
    \/ exportSucceeded
    \/ exportFailed
    \/ resetAllData
    \/ resetDeclined
    \/ alertDismissed

SpecUI == InitUI /\ [][NextUI]_vars

\* the first two steps of the wizard, with signed and zero cash flows
NextCashFlows ==
    \/ saveBasicParams
    \/ saveBasicParamsRejected
    \/ editCashFlowInputSigned
    \/ saveCashFlows
    \/ saveCashFlowsRejected
    \/ sidebarClick
    \/ sidebarClickIgnored
    \/ resetAllData
    \/ resetDeclined
    \/ alertDismissed

SpecCashFlows == InitUI /\ [][NextCashFlows]_vars

\* the call runs to completion: nothing pre-empts a synchronous function
SpecIRRLive == SpecIRR /\ WF_vars(NextIRR)

InitMetrics ==
    /\ runs = [r \in Runs |-> IdleRun]
    /\ irr = IrrIdle
    /\ ui = UiIdle
    /\ PageIdle
    /\ call \in {Called("calculateDPI", a, b) :
                     a \in MetricNumbers, b \in MetricNumbers}
               \cup {Called("safeCalculatePercentage", a, b) :
                        a \in MetricValues, b \in MetricValues}

NextMetrics ==
    \/ calculateDPIGuarded
    \/ calculateDPIRatio
    \/ percentageGuarded
    \/ percentageComputed

SpecMetrics == InitMetrics /\ [][NextMetrics]_vars

InitCharts ==
    /\ runs = [r \in Runs |-> IdleRun]
    /\ irr = IrrIdle
    /\ ui = UiIdle
    /\ call = CallIdle
    /\ clip = ClipIdle
    /\ timer = TimerIdle
    /\ quick = QuickIdle
    /\ charts \in {[ChartsIdle EXCEPT !.module = m] : m \in ChartModules}

NextCharts ==
    \/ createChart
    \/ redrawAllCharts
    \/ updateChartTheme
    \/ destroyAllCharts
    \/ resultStored

SpecCharts == InitCharts /\ [][NextCharts]_vars

InitClipboard ==
    /\ runs = [r \in Runs |-> IdleRun]
    /\ irr = IrrIdle
    /\ ui = UiIdle
    /\ call = CallIdle
    /\ charts = ChartsIdle
    /\ timer = TimerIdle
    /\ quick = QuickIdle
    /\ clip \in ClipPages

NextClipboard ==
    \/ testOptimizedClipboard
    \/ confirmClicked
    \/ animationFrame
    \/ blobReady
    \/ modernWriteResolved
    \/ modernWriteRejected
    \/ textWriteResolved
    \/ textWriteRejected

\* the event loop runs every callback that is due and every clipboard
\* promise settles
SpecClipboard == InitClipboard /\ [][NextClipboard]_vars /\ WF_vars(NextClipboard)

InitTimers ==
    /\ runs = [r \in Runs |-> IdleRun]
    /\ irr = IrrIdle
    /\ ui = UiIdle
    /\ call = CallIdle
    /\ charts = ChartsIdle
    /\ clip = ClipIdle
    /\ quick = QuickIdle
    /\ timer \in {Wrapped(kind, delay) : kind \in {"debounce", "throttle"}, delay \in Delays}

NextTimers ==
    \/ callDebounced
    \/ later
    \/ callThrottled
    \/ callThrottledDropped
    \/ throttleReset
    \/ tick

\* time passes and the event loop runs the timers that are due
SpecTimers == InitTimers /\ [][NextTimers]_vars /\ WF_vars(NextTimers)

InitQuick ==
    /\ runs = [r \in Runs |-> IdleRun]
    /\ irr = IrrIdle
    /\ ui = UiIdle
    /\ call = CallIdle
    /\ charts = ChartsIdle
    /\ clip = ClipIdle
    /\ timer = TimerIdle
    /\ quick \in {QuickCalled(firstYear, freq, rate, years, existing) :
                    firstYear \in QuickAmounts, freq \in QuickFrequencies,
                    rate \in QuickRates, years \in QuickYears,
                    existing \in 0..MaxQuickYears}

NextQuick ==
    \/ applyQuickAdjustment
    \/ applyQuickAdjustmentRejected

SpecQuick == InitQuick /\ [][NextQuick]_vars

(***************************************************************************)
(* Properties of the waterfall engine                                      *)
(***************************************************************************)
SumT(f) == f["flat"] + f["senior"] + f["mezzanine"] + f["subordinate"]

\* everything a ledger row hands out
Allocated(row) ==
    SumT(row.principal_repayment) + SumT(row.hurdle_distribution)
    + row.carry_gp + row.carry_lp

Rows(r) == {runs[r].ledger[k] : k \in 1..Len(runs[r].ledger)}

\* C1 as stated: in every period of every run the tier allocations sum to at
\* most the period's cash available (its net cash flow).
C1_AllocationsWithinCash ==
    \A r \in Runs : \A row \in Rows(r) : Allocated(row) <= row.net_cash_flow

\* C1 amended: the tier allocations of a period sum to at most its cash
\* available when that is non-negative, and to 0 when it is negative.
C1_NoOverAllocation ==
    \A r \in Runs : \A row \in Rows(r) :
        /\ row.net_cash_flow >= 0 => Allocated(row) <= row.net_cash_flow
        /\ row.net_cash_flow < 0 => Allocated(row) = 0
        /\ Allocated(row) >= 0

C1_Witness ==
    \E row1 \in Rows("a"), row2 \in Rows("a") :
        /\ row1.net_cash_flow < 0
        /\ row2.net_cash_flow > 0
        /\ Allocated(row2) = row2.net_cash_flow
        /\ row2.carry_gp > 0

\* C2: in every mode, after every period, every tranche's principal balance
\* and accrued hurdle are non-negative.
C2_BalancesNonNegative ==
    \A r \in Runs :
        /\ \A x \in Tranches : runs[r].principal[x] >= 0 /\ runs[r].accrued[x] >= 0
        /\ \A row \in Rows(r) : \A x \in Tranches :
               /\ row.ending_principal_balance[x] >= 0
               /\ row.ending_accrued_hurdle[x] >= 0

C2_Witness ==
    \E row1 \in Rows("a"), row2 \in Rows("a") :
        /\ row1.net_cash_flow < 0
        /\ row2.net_cash_flow > SumT(row2.beginning_principal_balance)
        /\ SumT(row2.beginning_principal_balance) > 0
        /\ runs["a"].inp.mode = "structured_mezzanine"
        /\ runs["a"].principal["senior"] = 0

RECURSIVE FirstAtOrBelowZero(_, _)
\* first year of the ledger whose remaining principal is <= 0, else 0
FirstAtOrBelowZero(ledger, from) ==
    IF from > Len(ledger) THEN 0
    ELSE IF ledger[from].remaining_principal <= 0 THEN from
    ELSE FirstAtOrBelowZero(ledger, from + 1)

\* C3: the remaining principal of every period is the investment minus the
\* cumulative net cash flow of periods 1..t (minus the cumulative cash flow
\* series that starts at -investment), and the year in which it first reaches
\* zero or below is the year of the static payback.
C3_RemainingPrincipalConsistent ==
    \A r \in Runs :
        /\ \A row \in Rows(r) :
               /\ row.remaining_principal =
                      runs[r].inp.investment_amount
                      - SeqSum(runs[r].inp.cash_flows, row.year)
               /\ row.remaining_principal = -row.cumulative_cash_flow
        /\ runs[r].pc = "done" =>
               /\ runs[r].payback.year = FirstAtOrBelowZero(runs[r].ledger, 1)
               /\ runs[r].payback.recovered = (runs[r].payback.year # 0)

C3_Witness ==
    /\ runs["a"].pc = "done"
    /\ runs["a"].payback.recovered
    /\ runs["a"].payback.year >= 2
    /\ \E row \in Rows("a") : row.net_cash_flow < 0
    /\ \E row \in Rows("a") : row.remaining_principal < 0

\* C4: the static payback period is the first period whose cumulative net
\* cash flow (from -investment) is non-negative, interpolated inside that
\* period with the period's flow; the documented scenario gives the series
\* -8000, -5000, -2500, -1000, 3000 and 4 + 1000/4000 = 4.25 years.
C4_StaticPayback ==
    \A r \in Runs : runs[r].pc = "done" =>
        LET pb == runs[r].payback
            led == runs[r].ledger
        IN  /\ ~pb.recovered => \A k \in 1..Len(led) : led[k].cumulative_cash_flow < 0
            /\ pb.recovered =>
                 /\ pb.year \in 1..Len(led)
                 /\ led[pb.year].cumulative_cash_flow >= 0
                 /\ \A k \in 1..(pb.year - 1) : led[k].cumulative_cash_flow < 0
                 /\ pb.whole = pb.year - 1
                 /\ pb.den = led[pb.year].net_cash_flow
                 /\ pb.num = led[pb.year].net_cash_flow
                             - led[pb.year].cumulative_cash_flow
                 /\ pb.num > 0 /\ pb.num <= pb.den
            /\ runs[r].inp = ScenarioInput =>
                 /\ [k \in 1..5 |-> led[k].cumulative_cash_flow]
                        = <<-8000, -5000, -2500, -1000, 3000>>
                 /\ pb.recovered
                 /\ 100 * (pb.whole * pb.den + pb.num) = 425 * pb.den

C4_Witness ==
    /\ runs["a"].pc = "done"
    /\ runs["a"].inp = ScenarioInput
    /\ runs["a"].payback.whole = 4
    /\ runs["a"].payback.num = 1000
    /\ runs["a"].payback.den = 4000

RowsOfMode(r, modes) == IF runs[r].inp.mode \in modes THEN Rows(r) ELSE {}

\* C13: in flat_priority_repayment every period applies cash to principal,
\* then to the accrued hurdle, then to the carry split, each tier getting
\* what the previous one left: a hurdle distribution only with the principal
\* fully repaid, a carry only with the accrued hurdle also fully paid.
C13_FlatPriorityOrder ==
    \A r \in Runs : \A row \in RowsOfMode(r, {"flat_priority_repayment"}) :
        LET cash == CashForAllocation(row.net_cash_flow)
            pr == row.principal_repayment["flat"]
            hd == row.hurdle_distribution["flat"]
            carry == row.carry_gp + row.carry_lp
        IN  /\ pr = Min(cash, row.beginning_principal_balance["flat"])
            /\ hd = Min(cash - pr, row.accrued_hurdle["flat"])
            /\ carry = cash - pr - hd
            /\ hd # 0 => row.ending_principal_balance["flat"] = 0
            /\ carry # 0 => /\ row.ending_accrued_hurdle["flat"] = 0
                            /\ row.ending_principal_balance["flat"] = 0

C13_Witness ==
    \E row \in RowsOfMode("a", {"flat_priority_repayment"}) :
        /\ row.principal_repayment["flat"] > 0
        /\ row.hurdle_distribution["flat"] > 0
        /\ row.carry_gp > 0 /\ row.carry_lp > 0

\* C14: the GP share of the carry split is the carry cash x management_carry%
\* and the LP share the remainder, so the two add up to the cash that entered
\* the tier; carry 0 gives GP nothing, carry 100 gives LP nothing; the tier
\* gets cash only in a period whose accrued hurdle is fully paid.
C14_CarrySplitExact ==
    \A r \in Runs :
        \A row \in RowsOfMode(r, {"flat_priority_repayment",
                                  "flat_periodic_distribution"}) :
            LET carryCash == CashForAllocation(row.net_cash_flow)
                             - row.principal_repayment["flat"]
                             - row.hurdle_distribution["flat"]
                mc == runs[r].inp.management_carry
            IN  /\ row.carry_gp + row.carry_lp = carryCash
                /\ row.carry_gp = (carryCash * mc) \div 100
                /\ row.carry_gp >= 0 /\ row.carry_lp >= 0
                /\ mc = 0 => row.carry_gp = 0
                /\ mc = 100 => row.carry_lp = 0
                /\ carryCash # 0 => row.ending_accrued_hurdle["flat"] = 0

C14_Witness ==
    \E row \in RowsOfMode("a", {"flat_periodic_distribution"}) :
        /\ runs["a"].inp.management_carry = 100
        /\ row.beginning_accrued_hurdle["flat"] > 0
        /\ row.carry_gp > 0 /\ row.carry_lp = 0

\* C15: in a period with a negative net cash flow every tier allocation is 0
\* and no principal balance moves; the closing balances differ from the
\* opening ones by the period's hurdle accrual only.
C15_NegativePeriodAllocatesNothing ==
    \A r \in Runs : \A row \in Rows(r) :
        row.net_cash_flow < 0 =>
            /\ \A x \in Tranches :
                   /\ row.principal_repayment[x] = 0
                   /\ row.hurdle_distribution[x] = 0
                   /\ row.ending_principal_balance[x]
                          = row.beginning_principal_balance[x]
                   /\ row.ending_accrued_hurdle[x] = row.accrued_hurdle[x]
                   /\ row.accrued_hurdle[x] >= row.beginning_accrued_hurdle[x]
            /\ row.carry_gp = 0 /\ row.carry_lp = 0

C15_Witness ==
    \E row \in Rows("a") :
        /\ row.net_cash_flow < 0
        /\ row.year >= 2
        /\ row.beginning_principal_balance["senior"] > 0
        /\ row.ending_accrued_hurdle["senior"] > row.beginning_accrued_hurdle["senior"]

(***************************************************************************)
(* Properties of the metrics library                                       *)
(***************************************************************************)
\* C8: calculateIRR performs at most maxIterations Newton steps and then
\* returns a number, converged or not: the loop counter never exceeds
\* maxIterations, every call returns, and the value returned is rate * 100
\* whether or not the tolerance was met.
C8_ReturnsAfterMaxIterations ==
    /\ [](/\ irr.i <= irr.maxIterations
          /\ irr.updates <= irr.maxIterations
          /\ irr.pc = "done" =>
               /\ irr.result.k \in {"fin", "inf", "nan"}
               /\ Len(irr.argument) >= 2 => irr.result = Percent(irr.rate))
    /\ <>(irr.pc = "done")

C8_Witness ==
    /\ irr.pc = "done"
    /\ ~irr.converged
    /\ irr.maxIterations >= 2
    /\ irr.updates = irr.maxIterations
    /\ irr.result.k = "fin"
    /\ ~AbsLess(calculateNPV(irr.flows, irr.rate), irr.tolerance)

\* C9: a call of a metrics function leaves its arguments unchanged: the
\* caller's cash-flow array holds the same elements in the same order after
\* calculateIRR as when it was passed.
C9_ArgumentsUnchanged == irr.cashFlows = irr.argument

\* C10: when the derivative of NPV at the current rate is exactly 0 and
\* |NPV| is not below the tolerance, calculateIRR stops at once, divides
\* nothing by the derivative, and returns the last rate (as a percentage).
C10_StopsOnZeroDerivative ==
    [][(/\ irr.pc = "loop"
        /\ irr.i < irr.maxIterations
        /\ ~AbsLess(calculateNPV(irr.flows, irr.rate), irr.tolerance)
        /\ IsZero(calculateDerivativeNPV(irr.flows, irr.rate)))
       => (/\ irr'.pc = "done"
           /\ irr'.result = Percent(irr.rate)
           /\ irr'.rate = irr.rate
           /\ irr'.updates = irr.updates
           /\ irr'.i = irr.i)]_vars

C10_Witness ==
    /\ irr.pc = "done"
    /\ Len(irr.argument) >= 2
    /\ ~irr.converged
    /\ irr.i < irr.maxIterations
    /\ irr.updates >= 1
    /\ IsZero(calculateDerivativeNPV(irr.flows, irr.rate))
    /\ irr.result = Percent(irr.rate)

\* C11: calculateIRR called with fewer than 2 cash flows returns 0 and has
\* not sorted the array, mapped or read a flow, or entered the loop.
C11_DegenerateReturnsZero ==
    Len(irr.argument) < 2 =>
        /\ irr.pc \in {"called", "done"}
        /\ irr.cashFlows = irr.argument
        /\ irr.flows = <<>>
        /\ irr.i = 0 /\ irr.updates = 0
        /\ irr.pc = "done" => irr.result = Fin(0) /\ ~irr.converged

C11_Witness ==
    /\ irr.pc = "done"
    /\ Len(irr.argument) = 1
    /\ irr.maxIterations > 0
    /\ irr.result = Fin(0)

\* C12: calculateDPI returns 0 whenever totalInvestments is 0, whatever the
\* distributions are, and totalDistributions / totalInvestments otherwise;
\* calculateDPI(0, X) = 0 for X > 0, calculateDPI(X, 0) = 0, and every call
\* returns.
C12_DPIGuardsZeroInvestment ==
    call.fn = "calculateDPI" =>
        /\ call.pc \in {"called", "done"}
        /\ call.pc = "called" => ENABLED NextMetrics
        /\ call.pc = "done" =>
              /\ IsZero(call.b) => call.result = Fin(0)
              /\ ~IsZero(call.b) => call.result = DivOf(call.a, call.b)
              /\ (IsZero(call.a) /\ call.b.k = "fin" /\ call.b.v > 0)
                     => call.result = Fin(0)

C12_Witness ==
    /\ call.fn = "calculateDPI" /\ call.pc = "done"
    /\ call.a = FromInt(1000) /\ IsZero(call.b)
    /\ call.result = Fin(0)

\* C18 as stated: safeCalculatePercentage returns 0 whenever the denominator
\* is 0 or an argument is not a finite number, and numerator / denominator x
\* 100 otherwise; the result is never NaN or infinite.
C18_PercentageOrZero ==
    (call.fn = "safeCalculatePercentage" /\ call.pc = "done") =>
        /\ call.result.k = "fin"
        /\ IF ArgumentUnusable(call.a) \/ ArgumentUnusable(call.b) \/ IsZero(call.b)
           THEN call.result = Fin(0)
           ELSE call.result = MulOf(DivOf(call.a, call.b), FromInt(100))

\* C18 amended: as above, except that 0 is also returned when numerator /
\* denominator x 100 of two finite numbers is not finite (it overflows);
\* every call returns a finite number.
C18_PercentageOrZeroOnOverflow ==
    call.fn = "safeCalculatePercentage" =>
        /\ call.pc \in {"called", "done"}
        /\ call.pc = "called" => ENABLED NextMetrics
        /\ call.pc = "done" =>
              /\ call.result.k = "fin"
              /\ IF ArgumentUnusable(call.a) \/ ArgumentUnusable(call.b)
                    \/ IsZero(call.b)
                 THEN call.result = Fin(0) /\ call.guarded
                 ELSE LET ratio == MulOf(DivOf(call.a, call.b), FromInt(100))
                      IN  /\ ratio.k = "fin" => call.result = ratio
                          /\ ratio.k # "fin" => call.result = Fin(0)

C18_Witness ==
    /\ call.fn = "safeCalculatePercentage" /\ call.pc = "done"
    /\ call.a = FromInt(1000) /\ call.b = Fin(1)
    /\ ~call.guarded
    /\ call.result = Fin(0)

(***************************************************************************)
(* Properties of the front end                                             *)
(***************************************************************************)
\* C7: whenever calculate() sends a request to /api/calculate, the cash_flows
\* array of the payload has exactly basic_params.investment_period entries.
C7_PayloadLengthMatchesPeriod ==
    ui.pending = "calculate" =>
        Len(ui.request.cash_flows) = ui.request.basic_params.investment_period

\* the stored basic parameters satisfy the checks of the form
ParamsInRange(bp) ==
    /\ bp.investment_target # ""
    /\ bp.investment_amount > 0
    /\ bp.investment_period \in 1..30
    /\ bp.hurdle_rate \in 0..100
    /\ bp.management_carry \in 0..100

\* C16: saveBasicParams stores the parameters and moves to the cash-flow step
\* only when the target is non-empty, the amount > 0, the period an integer
\* in 1..30 and hurdle rate and carry in 0..100; when a check fails,
\* basicParams, cashFlows, currentStep and the displayed tab stay as they are.
C16_SaveBasicParamsValidates ==
    [][LET onForm == ui.tab = "basic-params" /\ ~ui.busy
           saved == Alert("saveBasicParams", "success")
           refused == Alert("saveBasicParams", "error")
       IN  /\ (onForm /\ ui'.basicParams # ui.basicParams
                       /\ ui'.basicParams # EmptyParams)
                  => /\ ParamsInRange(ui'.basicParams)
                     /\ ui'.tab = "cash-flows"
                     /\ ui'.currentStep = Max(ui.currentStep, 2)
                     /\ ui'.cashFlows = ui.cashFlows
                     /\ ui'.alert = saved
           /\ (ui'.alert = saved /\ ui.alert # saved)
                  => /\ onForm
                     /\ ParamsInRange(ui'.basicParams)
                     /\ ui'.tab = "cash-flows"
           /\ (ui'.alert = refused /\ ui.alert # refused)
                  => /\ onForm
                     /\ ui'.basicParams = ui.basicParams
                     /\ ui'.cashFlows = ui.cashFlows
                     /\ ui'.currentStep = ui.currentStep
                     /\ ui'.tab = ui.tab]_vars

C16_Witness ==
    /\ ui.alert = Alert("saveBasicParams", "error")
    /\ ui.tab = "basic-params"
    /\ ParamsInRange(ui.basicParams)
    /\ ui.basicParams.investment_period = 2
    /\ ui.currentStep >= 3

\* the parameters a request may carry for its mode
ModeParamsInRange(mode, mp) ==
    /\ \A p \in ParamNames \ RequiredParams(mode) : mp[p] = Missing
    /\ mode = "flat_periodic_distribution" => mp["periodic_rate"] \in 0..100
    /\ mode = "structured_senior_subordinate" => mp["senior_ratio"] \in 1..99
    /\ mode = "structured_mezzanine" =>
           mp["senior_ratio"] + mp["mezzanine_ratio"] < 100

\* C17: calculate() sends no request when no mode is selected or a parameter
\* of the selected mode is invalid, and then leaves modeParams and
\* calculationResult as they are; a request that is sent is for the selected
\* mode and carries the checked parameters of that mode only.
C17_CalculateValidatesSelectedMode ==
    /\ [](ui.pending = "calculate" =>
             /\ ui.request.mode \in Modes
             /\ ui.request.mode = ui.mode
             /\ ui.request.modeParams = ui.modeParams
             /\ ModeParamsInRange(ui.request.mode, ui.request.modeParams))
    /\ [][LET refused == {Alert("calculate", "warning"), Alert("calculate", "error")}
          IN  /\ (ui'.alert \in refused /\ ui'.alert # ui.alert)
                    => /\ ui.tab = "distribution-mode"
                       /\ ui'.pending = "" /\ ~ui'.busy
                       /\ ui'.request = NoPayload
                       /\ ui'.modeParams = ui.modeParams
                       /\ ui'.calculationResult = ui.calculationResult
                       /\ ui'.alert.type = "warning" <=> ui.mode = ""
              /\ (ui'.pending = "calculate" /\ ui.pending # "calculate")
                    => /\ ui.mode # ""
                       /\ ui'.calculationResult = ui.calculationResult]_vars

C17_Witness ==
    /\ ui.alert = Alert("calculate", "error")
    /\ ui.tab = "distribution-mode"
    /\ ui.mode = "structured_mezzanine"
    /\ ui.calculationResult.success
    /\ ui.calculationResult.payload.mode = "flat_periodic_distribution"
    /\ ui.modeParams = ui.calculationResult.payload.modeParams

\* C19: once a calculation result is stored, the results tab can be reached
\* again from any other tab by a sidebar click alone (no new request): the
\* sidebar item of the results step is clickable.
C19_ResultsReachableBySidebar ==
    (ui.calculationResult.success /\ ~ui.busy /\ ui.tab # "results")
        => SidebarClickable(TabStep("results"), ui.currentStep)

\* a step changes the displayed tab and nothing else
TabOnlyStep == ui'.tab # ui.tab /\ [ui' EXCEPT !.tab = ui.tab] = ui

C21_OneLiveChartPerCanvas ==
    /\ \A canvas \in Canvases : charts.live[canvas] <= 1
    /\ charts.by = "destroyAllCharts" =>
          \A canvas \in Canvases : charts.live[canvas] = 0

(***************************************************************************)
(* Properties of the clipboard test page                                   *)
(***************************************************************************)
\* C22: once the user has confirmed, testOptimizedClipboard always finishes
\* with exactly one reported outcome; the download is triggered only after
\* both copy methods failed or were unavailable; it never stays pending.
C22_ClipboardAlwaysReports ==
    /\ [](clip.pc = "done" /\ clip.chart => Len(clip.reports) = 1)
    /\ [](clip.downloaded /\ clip.chart =>
            /\ ~clip.modern \/ "modern" \in clip.failed
            /\ ~clip.text \/ "text" \in clip.failed)
    /\ (clip.pc \in {"modernFrame", "modernBlob", "modernWrite", "textWrite"}
          ~> clip.pc = "done")

(***************************************************************************)
(* Properties of Utils.debounce and Utils.throttle                         *)
(***************************************************************************)
\* the most recent call of the wrapper
LastCall == timer.calls[Len(timer.calls)]

\* C23: the function returned by Utils.debounce(func, wait) never invokes
\* func synchronously; func is invoked once wait ms have passed since the
\* most recent call, exactly once per burst and with the arguments of the
\* last call of the burst; a call made before the timer fires cancels the
\* pending invocation.
C23_DebounceInvokesLastCallOnce ==
    /\ [](timer.kind = "debounce" =>
            /\ Cardinality(timer.pending) <= 1
            /\ \A p \in timer.pending : p.due = LastCall.at + timer.delay
            /\ Len(timer.invoked) <= Len(timer.calls))
    /\ [][callDebounced =>
            /\ timer'.invoked = timer.invoked
            /\ timer'.pending = {[id |-> timer.nextId, due |-> timer.now + timer.delay]}]_vars
    /\ [][later =>
            /\ timer.now = LastCall.at + timer.delay
            /\ timer'.invoked = Append(timer.invoked, [at |-> timer.now, args |-> LastCall.args])
            /\ timer'.pending = {}]_vars
    /\ ((timer.kind = "debounce" /\ timer.pending # {}) ~> (timer.pending = {}))

\* a burst of two calls with different arguments, one invocation with the
\* arguments of the second call
C23_Witness ==
    /\ timer.kind = "debounce" /\ timer.delay = 2
    /\ Len(timer.calls) = 2 /\ Len(timer.invoked) = 1
    /\ timer.calls[1].args = "a" /\ timer.calls[2].args = "b"
    /\ timer.calls[2].at = timer.calls[1].at + 1
    /\ timer.invoked[1] = [at |-> timer.calls[2].at + 2, args |-> "b"]


\* the most recent invocation of func
LastInvoked == timer.invoked[Len(timer.invoked)]

\* C24: the function returned by Utils.throttle(func, limit) invokes func
\* immediately, with that call's arguments, when no window is open, and
\* opens a window of limit ms; a call made while the window is open is
\* dropped and never invoked later; func runs at most once per window and
\* the window always closes after limit ms.
C24_ThrottleOncePerWindow ==
    /\ [](timer.kind = "throttle" =>
            /\ timer.inThrottle <=> timer.pending # {}
            /\ Cardinality(timer.pending) <= 1
            /\ \A p \in timer.pending :
                  p.due = LastInvoked.at + timer.delay /\ timer.now <= p.due
            /\ Len(timer.invoked) + timer.dropped = Len(timer.calls)
            /\ \A i \in 1..Len(timer.invoked) - 1 :
                  timer.invoked[i + 1].at >= timer.invoked[i].at + timer.delay)
    /\ [][callThrottled =>
            /\ ~timer.inThrottle /\ timer'.inThrottle
            /\ timer'.invoked = Append(timer.invoked, timer'.calls[Len(timer'.calls)])
            /\ timer'.calls[Len(timer'.calls)].at = timer.now]_vars
    /\ [][callThrottledDropped =>
            /\ timer.inThrottle /\ timer'.inThrottle
            /\ timer'.invoked = timer.invoked
            /\ timer'.pending = timer.pending]_vars
    /\ [][throttleReset =>
            /\ timer.now = LastInvoked.at + timer.delay
            /\ ~timer'.inThrottle
            /\ timer'.invoked = timer.invoked]_vars
    /\ ((timer.kind = "throttle" /\ timer.inThrottle) ~> ~timer.inThrottle)

\* a call invoked, a call inside its window dropped, and a call after the
\* window invoked
C24_Witness ==
    /\ timer.kind = "throttle" /\ timer.delay = 2
    /\ Len(timer.calls) = 3 /\ timer.dropped = 1
    /\ timer.calls[2].at = timer.calls[1].at + 1
    /\ timer.invoked = <<timer.calls[1], timer.calls[3]>>
    /\ timer.calls[3].at = timer.calls[1].at + 2
    /\ timer.calls[2].args # timer.calls[1].args

(***************************************************************************)
(* Properties of the quick adjustment                                      *)
(***************************************************************************)
\* the number of years read from the investment-period field
QuickYearCount == quick.years.v \div Scale

\* C25: applyQuickAdjustment fills the cash-flow input of every year y in
\* 1..investment_period with the value of year y of the documented
\* calculateCashFlows series (firstYear grown once every freq years), for
\* every firstYear, rate, freq >= 1 and number of years.
C25_QuickAdjustmentMatchesDocumented ==
    (quick.pc = "done" /\ quick.freq.v >= Scale) =>
        /\ Len(quick.inputs) >= QuickYearCount
        /\ \A y \in 1..QuickYearCount :
              quick.inputs[y] =
                  calculateCashFlows(quick.firstYear, quick.freq, quick.rate,
                                     QuickYearCount)[y].value

(***************************************************************************)
(* Further properties of the front end                                     *)
(***************************************************************************)
\* C26: AppState.currentStep is always an integer in 1..5, never decreases
\* except through a confirmed resetAllData, and always equals the highest
\* step whose tab has been shown by showTab since the last reset (1 if none).
C26_CurrentStepIsHighestShown ==
    /\ [](/\ ui.currentStep \in 1..5
          /\ ui.currentStep = Max(1, ui.shown))
    /\ [][ui'.currentStep < ui.currentStep => resetAllData]_vars

\* the results tab has been shown and the user has gone back to step 1
C26_Witness ==
    /\ ui.currentStep = 4
    /\ ui.tab = "basic-params"
    /\ ui.shown = 4


\* the payload calculate() would build from the values AppState holds now
CurrentInputs ==
    [basic_params |-> ui.basicParams, cash_flows |-> ui.cashFlows,
     mode |-> ui.mode, modeParams |-> ui.modeParams]

\* C27: whenever AppState.calculationResult is non-null, it is the successful
\* response to a calculate request whose payload was built from the values
\* currently held in AppState.basicParams, cashFlows, mode and modeParams.
C27_ResultBelongsToCurrentInputs ==
    ui.calculationResult.success => ui.calculationResult.payload = CurrentInputs


\* a request is started: the interface is disabled when it is sent
RequestStarted == ui.pending = "" /\ ui'.pending # ""

\* a request is answered, by either callback
RequestAnswered == ui.pending # "" /\ ui'.pending = ""

\* C28: every request started by calculate, exportResults or importExcel
\* disables the interface before it is sent and re-enables it when its
\* response arrives, on either callback; once every outstanding request has
\* been answered the interface is enabled, and calculationResult is replaced
\* only by a response whose success flag is true.
C28_RequestsDisableAndReenable ==
    /\ [](ui.busy <=> ui.pending # "")
    /\ [][(calculate \/ exportResults \/ importExcel) => RequestStarted /\ ui'.busy]_vars
    /\ [][RequestStarted => calculate \/ exportResults \/ importExcel]_vars
    /\ [][RequestAnswered => ~ui'.busy]_vars
    /\ [][(ui'.calculationResult # ui.calculationResult) =>
             calculateSucceeded \/ resetAllData]_vars

\* an export has been answered by its error callback and the interface is
\* usable again
C28_Witness ==
    /\ ui.alert = Alert("exportResponse", "error")
    /\ ~ui.busy /\ ui.pending = ""
    /\ ui.calculationResult.success

\* the texts of a cash-flow input that are a number
HoldsNumber(text) == text \in {"-5", "0", "400"}

\* C29: saveCashFlows replaces AppState.cashFlows and moves to the
\* distribution-mode step only when every cash-flow input holds a valid number,
\* negative and zero values included; with an input that is empty or no number
\* AppState.cashFlows, AppState.currentStep and the displayed tab are unchanged;
\* on success the saved array has one entry per input, in year order.
C29_SaveCashFlowsValidates ==
    [][(saveCashFlows \/ saveCashFlowsRejected) =>
          IF \A i \in 1..Len(ui.cashInputs) : HoldsNumber(ui.cashInputs[i])
          THEN /\ Len(ui'.cashFlows) = Len(ui.cashInputs)
               /\ \A i \in 1..Len(ui.cashInputs) :
                     NumberToText(ui'.cashFlows[i]) = ui.cashInputs[i]
               /\ ui'.tab = "distribution-mode"
               /\ ui'.currentStep = Max(ui.currentStep, 3)
          ELSE /\ ui'.cashFlows = ui.cashFlows
               /\ ui'.currentStep = ui.currentStep
               /\ ui'.tab = ui.tab
               /\ ui'.alert = Alert("saveCashFlows", "error")]_vars

\* a call of capital and a year without cash flow were saved, in that order
C29_Witness ==
    /\ ui.cashFlows = <<-5, 0>>
    /\ ui.cashInputs = <<"-5", "0">>
    /\ ui.tab = "distribution-mode"
    /\ ui.alert = Alert("saveCashFlows", "success")

\* C30: after a confirmed resetAllData AppState equals its initial value
\* (currentStep 1, basicParams empty, cashFlows empty, mode empty, modeParams
\* empty, calculationResult null) and the basic-params tab is displayed; when
\* the confirmation is declined, AppState and the displayed tab are unchanged
\* and no request is sent.
C30_ResetRestoresInitialState ==
    /\ [][resetAllData =>
             /\ ui'.currentStep = 1
             /\ ui'.basicParams = EmptyParams
             /\ ui'.cashFlows = <<>>
             /\ ui'.mode = ""
             /\ ui'.modeParams = NoParams
             /\ ui'.calculationResult = NoResult
             /\ ui'.tab = "basic-params"]_vars
    /\ [][resetDeclined =>
             /\ ui'.currentStep = ui.currentStep
             /\ ui'.basicParams = ui.basicParams
             /\ ui'.cashFlows = ui.cashFlows
             /\ ui'.mode = ui.mode
             /\ ui'.modeParams = ui.modeParams
             /\ ui'.calculationResult = ui.calculationResult
             /\ ui'.tab = ui.tab
             /\ ui'.sent = ""
             /\ ui'.pending = ui.pending
             /\ ~ui'.busy]_vars
    /\ [](ui.sent = "reset" =>
             /\ ui.currentStep = 1
             /\ ui.calculationResult = NoResult
             /\ ui.tab = "basic-params")

\* the reset has just been confirmed and its request has been posted
C30_Witness ==
    /\ ui.sent = "reset"
    /\ ui.alert = Alert("resetAllData", "info")
    /\ ui.cashInputs = <<>>
    /\ ui = [UiInit EXCEPT !.alert = ui.alert, !.sent = ui.sent, !.shown = 1]

====
